---- MODULE Spec2Model ----
(***************************************************************************)
(* Banking System Error Handling Framework                                 *)
(* (src/banking_system_error_handling_framework.py).                       *)
(*                                                                         *)
(* Python values are modelled by what the code does with them:             *)
(*   - a text is a sequence of characters, each a one-character string;    *)
(*     a character above U+00FF, which a TLA+ string cannot hold, is the   *)
(*     string of its code point's name, as in "U+0663";                    *)
(*   - a Python string built from texts (a message, str(e)) is one string, *)
(*     in which a backslash stands doubled and a character held by its     *)
(*     name stands as a backslash, the name and a semicolon, so that two   *)
(*     such strings are equal exactly when the Python strings are;         *)
(*   - an amount handed to the program is a Python value (an int, a str,   *)
(*     None, a Decimal, a float or a bool), and validate_amount really     *)
(*     converts it with str() and parses the text the way decimal.Decimal  *)
(*     does;                                                               *)
(*   - a Decimal is sign, digits and exponent (or Infinity, or a NaN with  *)
(*     its sign, kind and payload), and the arithmetic is the arithmetic   *)
(*     of the default decimal context: 28 significant digits,              *)
(*     ROUND_HALF_EVEN, Emax = 999999, Emin = -999999, with                *)
(*     InvalidOperation and Overflow trapped (raised) and Underflow,       *)
(*     Subnormal, Clamped, Inexact and Rounded not.                        *)
(***************************************************************************)
EXTENDS Integers, Sequences, FiniteSets, TLC

(***************************************************************************)
(* Texts                                                                   *)
(***************************************************************************)
DigitChars == <<"0", "1", "2", "3", "4", "5", "6", "7", "8", "9">>

AsciiDigits == {DigitChars[k] : k \in 1..10}

IsAsciiDigit(c) == c \in AsciiDigits

\* the value of an ASCII digit: its place in DigitChars
AsciiDigitValues == [c \in AsciiDigits |-> (CHOOSE k \in 1..10 : DigitChars[k] = c) - 1]

AsciiDigitVal(c) == AsciiDigitValues[c]

\* the decimal digits of Unicode (category Nd), which Decimal(text) reads as
\* the ASCII digits: each row is one script's 0..9
DigitRows ==
    {DigitChars,
     <<"U+0660", "U+0661", "U+0662", "U+0663", "U+0664", "U+0665", "U+0666", "U+0667", "U+0668", "U+0669">>,
     <<"U+06F0", "U+06F1", "U+06F2", "U+06F3", "U+06F4", "U+06F5", "U+06F6", "U+06F7", "U+06F8", "U+06F9">>,
     <<"U+07C0", "U+07C1", "U+07C2", "U+07C3", "U+07C4", "U+07C5", "U+07C6", "U+07C7", "U+07C8", "U+07C9">>,
     <<"U+0966", "U+0967", "U+0968", "U+0969", "U+096A", "U+096B", "U+096C", "U+096D", "U+096E", "U+096F">>,
     <<"U+09E6", "U+09E7", "U+09E8", "U+09E9", "U+09EA", "U+09EB", "U+09EC", "U+09ED", "U+09EE", "U+09EF">>,
     <<"U+0A66", "U+0A67", "U+0A68", "U+0A69", "U+0A6A", "U+0A6B", "U+0A6C", "U+0A6D", "U+0A6E", "U+0A6F">>,
     <<"U+0AE6", "U+0AE7", "U+0AE8", "U+0AE9", "U+0AEA", "U+0AEB", "U+0AEC", "U+0AED", "U+0AEE", "U+0AEF">>,
     <<"U+0B66", "U+0B67", "U+0B68", "U+0B69", "U+0B6A", "U+0B6B", "U+0B6C", "U+0B6D", "U+0B6E", "U+0B6F">>,
     <<"U+0BE6", "U+0BE7", "U+0BE8", "U+0BE9", "U+0BEA", "U+0BEB", "U+0BEC", "U+0BED", "U+0BEE", "U+0BEF">>,
     <<"U+0C66", "U+0C67", "U+0C68", "U+0C69", "U+0C6A", "U+0C6B", "U+0C6C", "U+0C6D", "U+0C6E", "U+0C6F">>,
     <<"U+0CE6", "U+0CE7", "U+0CE8", "U+0CE9", "U+0CEA", "U+0CEB", "U+0CEC", "U+0CED", "U+0CEE", "U+0CEF">>,
     <<"U+0D66", "U+0D67", "U+0D68", "U+0D69", "U+0D6A", "U+0D6B", "U+0D6C", "U+0D6D", "U+0D6E", "U+0D6F">>,
     <<"U+0DE6", "U+0DE7", "U+0DE8", "U+0DE9", "U+0DEA", "U+0DEB", "U+0DEC", "U+0DED", "U+0DEE", "U+0DEF">>,
     <<"U+0E50", "U+0E51", "U+0E52", "U+0E53", "U+0E54", "U+0E55", "U+0E56", "U+0E57", "U+0E58", "U+0E59">>,
     <<"U+0ED0", "U+0ED1", "U+0ED2", "U+0ED3", "U+0ED4", "U+0ED5", "U+0ED6", "U+0ED7", "U+0ED8", "U+0ED9">>,
     <<"U+0F20", "U+0F21", "U+0F22", "U+0F23", "U+0F24", "U+0F25", "U+0F26", "U+0F27", "U+0F28", "U+0F29">>,
     <<"U+1040", "U+1041", "U+1042", "U+1043", "U+1044", "U+1045", "U+1046", "U+1047", "U+1048", "U+1049">>,
     <<"U+1090", "U+1091", "U+1092", "U+1093", "U+1094", "U+1095", "U+1096", "U+1097", "U+1098", "U+1099">>,
     <<"U+17E0", "U+17E1", "U+17E2", "U+17E3", "U+17E4", "U+17E5", "U+17E6", "U+17E7", "U+17E8", "U+17E9">>,
     <<"U+1810", "U+1811", "U+1812", "U+1813", "U+1814", "U+1815", "U+1816", "U+1817", "U+1818", "U+1819">>,
     <<"U+1946", "U+1947", "U+1948", "U+1949", "U+194A", "U+194B", "U+194C", "U+194D", "U+194E", "U+194F">>,
     <<"U+19D0", "U+19D1", "U+19D2", "U+19D3", "U+19D4", "U+19D5", "U+19D6", "U+19D7", "U+19D8", "U+19D9">>,
     <<"U+1A80", "U+1A81", "U+1A82", "U+1A83", "U+1A84", "U+1A85", "U+1A86", "U+1A87", "U+1A88", "U+1A89">>,
     <<"U+1A90", "U+1A91", "U+1A92", "U+1A93", "U+1A94", "U+1A95", "U+1A96", "U+1A97", "U+1A98", "U+1A99">>,
     <<"U+1B50", "U+1B51", "U+1B52", "U+1B53", "U+1B54", "U+1B55", "U+1B56", "U+1B57", "U+1B58", "U+1B59">>,
     <<"U+1BB0", "U+1BB1", "U+1BB2", "U+1BB3", "U+1BB4", "U+1BB5", "U+1BB6", "U+1BB7", "U+1BB8", "U+1BB9">>,
     <<"U+1C40", "U+1C41", "U+1C42", "U+1C43", "U+1C44", "U+1C45", "U+1C46", "U+1C47", "U+1C48", "U+1C49">>,
     <<"U+1C50", "U+1C51", "U+1C52", "U+1C53", "U+1C54", "U+1C55", "U+1C56", "U+1C57", "U+1C58", "U+1C59">>,
     <<"U+A620", "U+A621", "U+A622", "U+A623", "U+A624", "U+A625", "U+A626", "U+A627", "U+A628", "U+A629">>,
     <<"U+A8D0", "U+A8D1", "U+A8D2", "U+A8D3", "U+A8D4", "U+A8D5", "U+A8D6", "U+A8D7", "U+A8D8", "U+A8D9">>,
     <<"U+A900", "U+A901", "U+A902", "U+A903", "U+A904", "U+A905", "U+A906", "U+A907", "U+A908", "U+A909">>,
     <<"U+A9D0", "U+A9D1", "U+A9D2", "U+A9D3", "U+A9D4", "U+A9D5", "U+A9D6", "U+A9D7", "U+A9D8", "U+A9D9">>,
     <<"U+A9F0", "U+A9F1", "U+A9F2", "U+A9F3", "U+A9F4", "U+A9F5", "U+A9F6", "U+A9F7", "U+A9F8", "U+A9F9">>,
     <<"U+AA50", "U+AA51", "U+AA52", "U+AA53", "U+AA54", "U+AA55", "U+AA56", "U+AA57", "U+AA58", "U+AA59">>,
     <<"U+ABF0", "U+ABF1", "U+ABF2", "U+ABF3", "U+ABF4", "U+ABF5", "U+ABF6", "U+ABF7", "U+ABF8", "U+ABF9">>,
     <<"U+FF10", "U+FF11", "U+FF12", "U+FF13", "U+FF14", "U+FF15", "U+FF16", "U+FF17", "U+FF18", "U+FF19">>,
     <<"U+104A0", "U+104A1", "U+104A2", "U+104A3", "U+104A4", "U+104A5", "U+104A6", "U+104A7", "U+104A8", "U+104A9">>,
     <<"U+10D30", "U+10D31", "U+10D32", "U+10D33", "U+10D34", "U+10D35", "U+10D36", "U+10D37", "U+10D38", "U+10D39">>,
     <<"U+11066", "U+11067", "U+11068", "U+11069", "U+1106A", "U+1106B", "U+1106C", "U+1106D", "U+1106E", "U+1106F">>,
     <<"U+110F0", "U+110F1", "U+110F2", "U+110F3", "U+110F4", "U+110F5", "U+110F6", "U+110F7", "U+110F8", "U+110F9">>,
     <<"U+11136", "U+11137", "U+11138", "U+11139", "U+1113A", "U+1113B", "U+1113C", "U+1113D", "U+1113E", "U+1113F">>,
     <<"U+111D0", "U+111D1", "U+111D2", "U+111D3", "U+111D4", "U+111D5", "U+111D6", "U+111D7", "U+111D8", "U+111D9">>,
     <<"U+112F0", "U+112F1", "U+112F2", "U+112F3", "U+112F4", "U+112F5", "U+112F6", "U+112F7", "U+112F8", "U+112F9">>,
     <<"U+11450", "U+11451", "U+11452", "U+11453", "U+11454", "U+11455", "U+11456", "U+11457", "U+11458", "U+11459">>,
     <<"U+114D0", "U+114D1", "U+114D2", "U+114D3", "U+114D4", "U+114D5", "U+114D6", "U+114D7", "U+114D8", "U+114D9">>,
     <<"U+11650", "U+11651", "U+11652", "U+11653", "U+11654", "U+11655", "U+11656", "U+11657", "U+11658", "U+11659">>,
     <<"U+116C0", "U+116C1", "U+116C2", "U+116C3", "U+116C4", "U+116C5", "U+116C6", "U+116C7", "U+116C8", "U+116C9">>,
     <<"U+11730", "U+11731", "U+11732", "U+11733", "U+11734", "U+11735", "U+11736", "U+11737", "U+11738", "U+11739">>,
     <<"U+118E0", "U+118E1", "U+118E2", "U+118E3", "U+118E4", "U+118E5", "U+118E6", "U+118E7", "U+118E8", "U+118E9">>,
     <<"U+11950", "U+11951", "U+11952", "U+11953", "U+11954", "U+11955", "U+11956", "U+11957", "U+11958", "U+11959">>,
     <<"U+11C50", "U+11C51", "U+11C52", "U+11C53", "U+11C54", "U+11C55", "U+11C56", "U+11C57", "U+11C58", "U+11C59">>,
     <<"U+11D50", "U+11D51", "U+11D52", "U+11D53", "U+11D54", "U+11D55", "U+11D56", "U+11D57", "U+11D58", "U+11D59">>,
     <<"U+11DA0", "U+11DA1", "U+11DA2", "U+11DA3", "U+11DA4", "U+11DA5", "U+11DA6", "U+11DA7", "U+11DA8", "U+11DA9">>,
     <<"U+16A60", "U+16A61", "U+16A62", "U+16A63", "U+16A64", "U+16A65", "U+16A66", "U+16A67", "U+16A68", "U+16A69">>,
     <<"U+16AC0", "U+16AC1", "U+16AC2", "U+16AC3", "U+16AC4", "U+16AC5", "U+16AC6", "U+16AC7", "U+16AC8", "U+16AC9">>,
     <<"U+16B50", "U+16B51", "U+16B52", "U+16B53", "U+16B54", "U+16B55", "U+16B56", "U+16B57", "U+16B58", "U+16B59">>,
     <<"U+1D7CE", "U+1D7CF", "U+1D7D0", "U+1D7D1", "U+1D7D2", "U+1D7D3", "U+1D7D4", "U+1D7D5", "U+1D7D6", "U+1D7D7">>,
     <<"U+1D7D8", "U+1D7D9", "U+1D7DA", "U+1D7DB", "U+1D7DC", "U+1D7DD", "U+1D7DE", "U+1D7DF", "U+1D7E0", "U+1D7E1">>,
     <<"U+1D7E2", "U+1D7E3", "U+1D7E4", "U+1D7E5", "U+1D7E6", "U+1D7E7", "U+1D7E8", "U+1D7E9", "U+1D7EA", "U+1D7EB">>,
     <<"U+1D7EC", "U+1D7ED", "U+1D7EE", "U+1D7EF", "U+1D7F0", "U+1D7F1", "U+1D7F2", "U+1D7F3", "U+1D7F4", "U+1D7F5">>,
     <<"U+1D7F6", "U+1D7F7", "U+1D7F8", "U+1D7F9", "U+1D7FA", "U+1D7FB", "U+1D7FC", "U+1D7FD", "U+1D7FE", "U+1D7FF">>,
     <<"U+1E140", "U+1E141", "U+1E142", "U+1E143", "U+1E144", "U+1E145", "U+1E146", "U+1E147", "U+1E148", "U+1E149">>,
     <<"U+1E2F0", "U+1E2F1", "U+1E2F2", "U+1E2F3", "U+1E2F4", "U+1E2F5", "U+1E2F6", "U+1E2F7", "U+1E2F8", "U+1E2F9">>,
     <<"U+1E950", "U+1E951", "U+1E952", "U+1E953", "U+1E954", "U+1E955", "U+1E956", "U+1E957", "U+1E958", "U+1E959">>,
     <<"U+1FBF0", "U+1FBF1", "U+1FBF2", "U+1FBF3", "U+1FBF4", "U+1FBF5", "U+1FBF6", "U+1FBF7", "U+1FBF8", "U+1FBF9">>}

\* all of them
Digits == UNION {{row[k] : k \in 1..10} : row \in DigitRows}

IsDigitChar(c) == c \in Digits

\* the value of a digit: its place in its row
DigitVal(c) ==
    LET PlaceIn(row) == (CHOOSE k \in 1..10 : row[k] = c) - 1
    IN  PlaceIn(CHOOSE row \in DigitRows : \E k \in 1..10 : row[k] = c)

\* the characters str.isspace() holds for: str.strip() and Decimal(text)
\* remove them from both ends
\* (written as themselves: U+000B, U+001C to U+001F, U+0085 and U+00A0)
WhitespaceChars ==
    {"\t", "\n", "", "\f", "\r", "", "", "", "", " ", "", " ",
     "U+1680", "U+2000", "U+2001", "U+2002", "U+2003", "U+2004", "U+2005",
     "U+2006", "U+2007", "U+2008", "U+2009", "U+200A", "U+2028", "U+2029",
     "U+202F", "U+205F", "U+3000"}

\* the letters Decimal's grammar reads, case-insensitively
LowerOf(c) ==
    CASE c = "I" -> "i" [] c = "N" -> "n" [] c = "F" -> "f" [] c = "T" -> "t"
      [] c = "Y" -> "y" [] c = "A" -> "a" [] c = "S" -> "s" [] c = "E" -> "e"
      [] OTHER -> c

LowerText(s) == [k \in 1..Len(s) |-> LowerOf(s[k])]

\* a character as it stands in a string: itself, the backslash doubled, a
\* character held by its name between a backslash and a semicolon; no such
\* writing begins another, so strings of different texts differ
Written(c) ==
    IF c = "\\" THEN "\\\\" ELSE IF Len(c) = 1 THEN c ELSE "\\" \o c \o ";"

\* the text as one string, as an f-string renders it
RECURSIVE Join(_)
Join(s) ==
    IF s = <<>> THEN ""
    ELSE IF Len(s) = 1 THEN Written(s[1])
    ELSE Join(SubSeq(s, 1, Len(s) \div 2)) \o Join(SubSeq(s, Len(s) \div 2 + 1, Len(s)))

RECURSIVE NatDigits(_)
\* the decimal digits of a natural number, most significant first
NatDigits(n) == IF n < 10 THEN <<n>> ELSE Append(NatDigits(n \div 10), n % 10)

DigitsText(ds) == [k \in 1..Len(ds) |-> DigitChars[ds[k] + 1]]

\* str(n) of a Python int
IntText(n) == IF n < 0 THEN <<"-">> \o DigitsText(NatDigits(-n))
                       ELSE DigitsText(NatDigits(n))

Zeros(n) == [k \in 1..n |-> 0]

(***************************************************************************)
(* decimal.Decimal values.  sp is "F" (finite), "I" (infinity), "N" (a     *)
(* quiet NaN) or "S" (a signalling NaN).  A finite value is                *)
(* (-1)^neg * d * 10^e, d the coefficient's digits, most significant       *)
(* first, <<0>> for zero.  A NaN keeps its sign, and d is its payload,     *)
(* <<>> when it has none.                                                  *)
(***************************************************************************)
Dec(neg, ds, e) == [neg |-> neg, sp |-> "F", d |-> ds, e |-> e]

DecInf(neg) == [neg |-> neg, sp |-> "I", d |-> <<0>>, e |-> 0]

DecNaNOf(neg, signalling, payload) ==
    [neg |-> neg, sp |-> IF signalling THEN "S" ELSE "N", d |-> payload, e |-> 0]

\* Decimal('NaN')
DecNaN == DecNaNOf(FALSE, FALSE, <<>>)

IsNaN(x) == x.sp \in {"N", "S"}

\* Decimal('0')
DecZero == Dec(FALSE, <<0>>, 0)

IsZero(x) == x.sp = "F" /\ x.d = <<0>>

\* the least element of a non-empty set of integers
Lowest(S) == CHOOSE k \in S : \A j \in S : k <= j

\* int(text) drops the leading zeros of a coefficient
StripZeros(ds) ==
    LET Kept(nonzero) ==
            IF nonzero = {} THEN (IF ds = <<>> THEN <<>> ELSE <<0>>)
            ELSE SubSeq(ds, Lowest(nonzero), Len(ds))
    IN  Kept({k \in 1..Len(ds) : ds[k] # 0})

Drop(s, n) == SubSeq(s, n + 1, Len(s))

Take(s, n) == SubSeq(s, 1, n)

\* Decimal.__str__ (scientific notation, capitals)
DecText(x) ==
    LET sign == IF x.neg THEN <<"-">> ELSE <<>>
        ExpText(ex) ==
            IF ex = 0 THEN <<>>
            ELSE <<"E", IF ex < 0 THEN "-" ELSE "+">> \o
                 DigitsText(NatDigits(IF ex < 0 THEN -ex ELSE ex))
        \* the digits with the point after the first dotplace of them
        Placed(digs, n, leftdigits, dotplace) ==
            (IF dotplace <= 0 THEN <<"0", ".">> \o DigitsText(Zeros(-dotplace)) \o digs
             ELSE IF dotplace >= n THEN digs \o DigitsText(Zeros(dotplace - n))
             ELSE Take(digs, dotplace) \o <<".">> \o Drop(digs, dotplace))
            \o ExpText(leftdigits - dotplace)
        Finite(digs, n, leftdigits) ==
            Placed(digs, n, leftdigits,
                   IF x.e <= 0 /\ leftdigits > -6 THEN leftdigits ELSE 1)
    IN  CASE x.sp = "I" -> sign \o <<"I", "n", "f", "i", "n", "i", "t", "y">>
          [] x.sp = "N" -> sign \o <<"N", "a", "N">> \o DigitsText(x.d)
          [] x.sp = "S" -> sign \o <<"s", "N", "a", "N">> \o DigitsText(x.d)
          [] OTHER -> sign \o Finite(DigitsText(x.d), Len(x.d), x.e + Len(x.d))

(***************************************************************************)
(* Coefficients as digit sequences                                         *)
(***************************************************************************)
PadLeft(ds, n) == Zeros(n - Len(ds)) \o ds

\* -1, 0, 1: the order of two digit sequences of the same length, decided
\* at the first digit where they differ
CmpDigits(a, b) ==
    LET At(k) == IF a[k] < b[k] THEN -1 ELSE 1
        Decided(differ) == IF differ = {} THEN 0 ELSE At(Lowest(differ))
    IN  Decided({k \in 1..Len(a) : a[k] # b[k]})

\* the carry into digit j of a + b: the nearest lower digit pair that does
\* not sum to 9 decides it
CarryInto(a, b, j) ==
    LET At(k) == IF a[k] + b[k] >= 10 THEN 1 ELSE 0
        Decided(settled) == IF settled = {} THEN 0 ELSE At(Lowest(settled))
    IN  Decided({k \in (j + 1)..Len(a) : a[k] + b[k] # 9})

\* a + b for digit sequences of the same length, from digit k on; the first
\* element of the result is the carry
AddCarry(a, b, k) ==
    <<(a[k] + b[k] + CarryInto(a, b, k)) \div 10>>
    \o [j \in 1..(Len(a) - k + 1) |->
            (a[j + k - 1] + b[j + k - 1] + CarryInto(a, b, j + k - 1)) % 10]

AddDigits(a, b) ==
    LET n == IF Len(a) > Len(b) THEN Len(a) ELSE Len(b)
    IN  StripZeros(AddCarry(PadLeft(a, n), PadLeft(b, n), 1))

\* the borrow from digit j of a - b: the nearest lower digit pair that
\* differs decides it
BorrowFrom(a, b, j) ==
    LET At(k) == IF a[k] < b[k] THEN 1 ELSE 0
        Decided(settled) == IF settled = {} THEN 0 ELSE At(Lowest(settled))
    IN  Decided({k \in (j + 1)..Len(a) : a[k] # b[k]})

\* a - b for digit sequences of the same length, a >= b, from digit k on; the
\* first element of the result is the borrow
SubBorrow(a, b, k) ==
    <<IF a[k] - b[k] - BorrowFrom(a, b, k) < 0 THEN 1 ELSE 0>>
    \o [j \in 1..(Len(a) - k + 1) |->
            (a[j + k - 1] - b[j + k - 1] - BorrowFrom(a, b, j + k - 1) + 10) % 10]

SubDigits(a, b) ==
    LET n == IF Len(a) > Len(b) THEN Len(a) ELSE Len(b)
    IN  StripZeros(Tail(SubBorrow(PadLeft(a, n), PadLeft(b, n), 1)))

CmpCoeff(a, b) ==
    LET n == IF Len(a) > Len(b) THEN Len(a) ELSE Len(b)
    IN  CmpDigits(PadLeft(a, n), PadLeft(b, n))

(***************************************************************************)
(* Decimal(text): the constructor's grammar.  The text is stripped of      *)
(* surrounding whitespace and of every underscore, its digits are written  *)
(* in ASCII; then                                                          *)
(*   [sign] ( digits [. digits] | . digits ) [ E [sign] digits ]           *)
(*   [sign] Inf | [sign] Infinity | [sign] [s] NaN [digits]                *)
(* case-insensitively, a digit being any decimal digit of Unicode.         *)
(* Anything else raises decimal.InvalidOperation.  The constructor is      *)
(* exact: it applies no context rounding, and it refuses a numeral that    *)
(* the widest context (exponents up to 999999999999999999, as many digits  *)
(* of precision) cannot hold unchanged.  The exponent of a numeral it      *)
(* accepts is held as an integer of the model checker, so a numeral whose  *)
(* exponent is beyond 2147483647 either way has no value here.             *)
(***************************************************************************)
RECURSIVE LStrip(_)
LStrip(s) == IF s # <<>> /\ Head(s) \in WhitespaceChars THEN LStrip(Tail(s)) ELSE s

RECURSIVE RStrip(_)
RStrip(s) == IF s # <<>> /\ s[Len(s)] \in WhitespaceChars
             THEN RStrip(Take(s, Len(s) - 1)) ELSE s

Strip(s) == RStrip(LStrip(s))

NoUnderscores(s) == SelectSeq(s, LAMBDA c : c # "_")

\* the constructor first writes the text in ASCII: a digit of any script
\* becomes the ASCII digit of its value; any other character is left for the
\* grammar, which knows ASCII only, to refuse
AsAscii(s) ==
    [k \in 1..Len(s) |-> IF IsAsciiDigit(s[k]) THEN s[k]
                         ELSE IF IsDigitChar(s[k]) THEN DigitChars[DigitVal(s[k]) + 1]
                         ELSE s[k]]

RECURSIVE DigitPrefixLen(_)
DigitPrefixLen(s) == IF s # <<>> /\ IsAsciiDigit(Head(s))
                     THEN 1 + DigitPrefixLen(Tail(s)) ELSE 0

RECURSIVE DigitsValue(_)
\* int(digits) of an exponent
DigitsValue(s) == IF s = <<>> THEN 0
                  ELSE 10 * DigitsValue(Take(s, Len(s) - 1)) + AsciiDigitVal(s[Len(s)])

ParseFailure == [ok |-> FALSE, v |-> DecNaN]

\* the values of a run of digit characters
DigitVals(s) == [k \in 1..Len(s) |-> AsciiDigitVal(s[k])]

\* the digits of the widest context's Emax, 999999999999999999
ExactEmax == [k \in 1..18 |-> 9]

\* the digits of the magnitude of its Etiny, -1999999999999999997
ExactEtiny == <<1>> \o [k \in 1..17 |-> 9] \o <<7>>

\* the widest context cannot hold the numeral unchanged: its adjusted
\* exponent is above Emax (for a zero, its exponent), or its exponent is
\* below Etiny.  coeff is the coefficient, fracs the number of digits after
\* the point, edigits the digits written after E without leading zeros: fewer
\* of them than Emax has are an exponent well inside the range.
OutOfRange(coeff, fracs, eneg, edigits) ==
    /\ Len(edigits) >= Len(ExactEmax)
    /\ IF eneg
       THEN CmpCoeff(AddDigits(edigits, NatDigits(fracs)), ExactEtiny) > 0
       ELSE CmpCoeff(AddDigits(edigits, NatDigits(IF coeff = <<0>> THEN 0
                                                   ELSE Len(coeff) - 1)),
                     AddDigits(ExactEmax, NatDigits(fracs))) > 0

\* digits [. digits] [E [sign] digits], with a digit before the exponent
ParseNumber(neg, s) ==
    LET InRange(coeff, fracs, eneg, edigits) ==
            IF ~OutOfRange(coeff, fracs, eneg, StripZeros(DigitVals(edigits)))
            THEN [ok |-> TRUE,
                  v |-> Dec(neg, coeff,
                            (IF eneg THEN -DigitsValue(edigits) ELSE DigitsValue(edigits))
                                - fracs)]
            ELSE ParseFailure
        Finish(int, frac, hasE, eneg, edigits, rest) ==
            IF Len(int) + Len(frac) >= 1 /\ (hasE => edigits # <<>>) /\ rest = <<>>
            THEN InRange(StripZeros(DigitVals(int \o frac)), Len(frac), eneg, edigits)
            ELSE ParseFailure
        ExpRun(int, frac, eneg, r5, n) ==
            Finish(int, frac, TRUE, eneg, Take(r5, n), Drop(r5, n))
        ExpDigits(int, frac, eneg, r5) ==
            ExpRun(int, frac, eneg, r5, DigitPrefixLen(r5))
        ExpSign(int, frac, r4) ==
            IF r4 # <<>> /\ Head(r4) \in {"+", "-"}
            THEN ExpDigits(int, frac, Head(r4) = "-", Tail(r4))
            ELSE ExpDigits(int, frac, FALSE, r4)
        Exponent(int, frac, r3) ==
            IF r3 # <<>> /\ LowerOf(Head(r3)) = "e"
            THEN ExpSign(int, frac, Tail(r3))
            ELSE Finish(int, frac, FALSE, FALSE, <<>>, r3)
        FracRun(int, r2, n) == Exponent(int, Take(r2, n), Drop(r2, n))
        Fraction(int, r1) ==
            IF r1 # <<>> /\ Head(r1) = "."
            THEN FracRun(int, Tail(r1), DigitPrefixLen(Tail(r1)))
            ELSE Exponent(int, <<>>, r1)
        IntRun(n) == Fraction(Take(s, n), Drop(s, n))
    IN  IntRun(DigitPrefixLen(s))

\* Inf, Infinity, NaN or sNaN with optional diagnostic digits
ParseSpecial(neg, s) ==
    LET \* the payload is read as a number: its leading zeros go
        Payload(ds) == IF StripZeros(ds) = <<0>> THEN <<>> ELSE StripZeros(ds)
        NaNText(signalling, nan) ==
            IF /\ Len(nan) >= 3
               /\ Take(nan, 3) = <<"n", "a", "n">>
               /\ DigitPrefixLen(Drop(nan, 3)) = Len(nan) - 3
            THEN [ok |-> TRUE,
                  v |-> DecNaNOf(neg, signalling, Payload(DigitVals(Drop(nan, 3))))]
            ELSE ParseFailure
        Special(low) ==
            IF low = <<"i", "n", "f">> \/ low = <<"i", "n", "f", "i", "n", "i", "t", "y">>
            THEN [ok |-> TRUE, v |-> DecInf(neg)]
            ELSE IF low # <<>> /\ Head(low) = "s" THEN NaNText(TRUE, Tail(low))
            ELSE NaNText(FALSE, low)
    IN  Special(LowerText(s))

\* Decimal(text)
DecimalOfText(text) ==
    LET Numeral(neg, body, parsed) ==
            IF parsed.ok THEN parsed ELSE ParseSpecial(neg, body)
        Signed(neg, body) == Numeral(neg, body, ParseNumber(neg, body))
        Stripped(s) ==
            IF s # <<>> /\ Head(s) \in {"+", "-"}
            THEN Signed(Head(s) = "-", Tail(s))
            ELSE Signed(FALSE, s)
    IN  Stripped(AsAscii(NoUnderscores(Strip(text))))

(***************************************************************************)
(* The arithmetic context the program runs under: decimal's default        *)
(* context.  The module never changes it (src line 12 imports Decimal).    *)
(***************************************************************************)
Prec == 28

Emax == 999999

Emin == -999999

\* what an arithmetic operation or a comparison raises: decimal's trapped signals
NoSignal == "none"

Outcome(sig, v) == [sig |-> sig, v |-> v]

(***************************************************************************)
(* Comparison (Decimal.__lt__, __le__, __gt__, __ge__, __eq__): exact,     *)
(* no rounding.  An ordering comparison with a NaN raises                  *)
(* InvalidOperation; the callers test for it.                              *)
(***************************************************************************)
Sgn(x) == IF IsZero(x) THEN 0 ELSE IF x.neg THEN -1 ELSE 1

Adjusted(x) == x.e + Len(x.d) - 1

\* the order of the magnitudes of two non-zero, non-NaN values
CmpMag(x, y) ==
    CASE x.sp = "I" /\ y.sp = "I" -> 0
      [] x.sp = "I" -> 1
      [] y.sp = "I" -> -1
      [] Adjusted(x) < Adjusted(y) -> -1
      [] Adjusted(x) > Adjusted(y) -> 1
      [] OTHER ->
           LET n == IF Len(x.d) > Len(y.d) THEN Len(x.d) ELSE Len(y.d)
           IN  CmpDigits(x.d \o Zeros(n - Len(x.d)), y.d \o Zeros(n - Len(y.d)))

\* -1, 0, 1 for x < y, x = y, x > y
Cmp(x, y) ==
    CASE Sgn(x) < Sgn(y) -> -1
      [] Sgn(x) > Sgn(y) -> 1
      [] Sgn(x) = 0 -> 0
      [] Sgn(x) = 1 -> CmpMag(x, y)
      [] OTHER -> CmpMag(y, x)

(***************************************************************************)
(* Decimal._fix: round a finite result to the context.  A result above     *)
(* Emax raises Overflow; one below Emin is subnormal and is rounded to the *)
(* exponent Etiny, which may leave zero (Underflow is not trapped).        *)
(***************************************************************************)
Min(a, b) == IF a < b THEN a ELSE b

Max(a, b) == IF a > b THEN a ELSE b

\* context.Etiny(): the least exponent of a subnormal
Etiny == Emin - Prec + 1

\* ROUND_HALF_EVEN: does dropping all but the first n digits round up?
RoundsUp(ds, n) ==
    IF ds[n + 1] = 5 /\ \A k \in (n + 2)..Len(ds) : ds[k] = 0
    THEN n > 0 /\ ds[n] % 2 = 1
    ELSE ds[n + 1] >= 5

Fix(x) ==
    LET top == Emax - Prec + 1
        \* the coefficient after rounding may be one digit too long: 99..9 + 1
        Rounded(coeff, expMin) ==
            IF Len(coeff) > Prec
            THEN IF expMin + 1 > top THEN Outcome("Overflow", x)
                 ELSE Outcome(NoSignal, Dec(x.neg, Take(coeff, Prec), expMin + 1))
            ELSE Outcome(NoSignal, Dec(x.neg, coeff, expMin))
        \* keep the first digits of ds, rounding on the rest
        Cut(ds, digits, expMin) ==
            Rounded(IF RoundsUp(ds, digits)
                    THEN AddDigits(Take(ds, digits), <<1>>)
                    ELSE IF digits = 0 THEN <<0>> ELSE Take(ds, digits),
                    expMin)
        \* expMin is the least exponent the result may have; a value wholly
        \* below it is rounded as a 1 just below it is
        Fitted(expMin) ==
            IF x.e < expMin
            THEN IF Len(x.d) + x.e - expMin < 0 THEN Cut(<<1>>, 0, expMin)
                 ELSE Cut(x.d, Len(x.d) + x.e - expMin, expMin)
            ELSE Outcome(NoSignal, x)
    IN  IF IsZero(x)
        THEN Outcome(NoSignal, Dec(x.neg, <<0>>, Min(Max(x.e, Etiny), Emax)))
        ELSE IF Len(x.d) + x.e - Prec > top THEN Outcome("Overflow", x)
        ELSE Fitted(Max(Len(x.d) + x.e - Prec, Etiny))

(***************************************************************************)
(* Decimal.__add__ and __sub__ of non-negative operands (balances and      *)
(* validated amounts are never negative and never NaN).                    *)
(***************************************************************************)
\* _normalize: both operands at one exponent; an operand too small to
\* matter at this precision is replaced by a 1 just below the other's digits
Normalize(x, y) ==
    LET Aligned(tmp, other) ==
            <<Dec(tmp.neg, tmp.d \o Zeros(tmp.e - other.e), other.e), other>>
        Clamped(tmp, other, exp) ==
            IF Len(other.d) + other.e - 1 < exp
            THEN Aligned(tmp, Dec(other.neg, <<1>>, exp))
            ELSE Aligned(tmp, other)
        Ordered(tmp, other) ==
            Clamped(tmp, other, tmp.e + Min(-1, Len(tmp.d) - Prec - 2))
        Swapped(pair) == <<pair[2], pair[1]>>
    IN  IF x.e < y.e THEN Swapped(Ordered(y, x)) ELSE Ordered(x, y)

\* x + y when one of them is zero: the other one, rescaled
AddZero(zero, other) ==
    LET Rescaled(exp) == Fix(Dec(other.neg, other.d \o Zeros(other.e - exp), exp))
    IN  Rescaled(Max(Min(zero.e, other.e), other.e - Prec - 1))

\* x + s * y, s = 1 or -1, for finite x, y >= 0
AddFinite(x, y, s) ==
    LET \* a and b: the coefficients of x and y at the common exponent e
        Combined(a, b, e, c) ==
            IF s = 1 THEN Dec(FALSE, AddDigits(a, b), e)
            ELSE IF c = 0 THEN Dec(FALSE, <<0>>, Min(x.e, y.e))
            ELSE IF c > 0 THEN Dec(FALSE, SubDigits(a, b), e)
            ELSE Dec(TRUE, SubDigits(b, a), e)
        Normalized(ops) ==
            Combined(ops[1].d, ops[2].d, ops[2].e, CmpCoeff(ops[1].d, ops[2].d))
        Sum == IF IsZero(x) /\ IsZero(y) THEN Dec(FALSE, <<0>>, Min(x.e, y.e))
               ELSE Normalized(Normalize(x, y))
    IN  IF IsZero(x) /\ ~IsZero(y) THEN AddZero(x, [y EXCEPT !.neg = (s = -1)])
        ELSE IF IsZero(y) /\ ~IsZero(x) THEN AddZero(y, x)
        ELSE Fix(Sum)

\* x + y
Add(x, y) ==
    IF x.sp = "I" \/ y.sp = "I" THEN Outcome(NoSignal, DecInf(FALSE))
    ELSE AddFinite(x, y, 1)

\* x - y
Sub(x, y) ==
    IF x.sp = "I" /\ y.sp = "I" THEN Outcome("InvalidOperation", DecNaN)
    ELSE IF x.sp = "I" THEN Outcome(NoSignal, DecInf(FALSE))
    ELSE IF y.sp = "I" THEN Outcome(NoSignal, DecInf(TRUE))
    ELSE AddFinite(x, y, -1)


(***************************************************************************)
(* Python values handed to the program as an amount                        *)
(***************************************************************************)
PyInt(n) == [t |-> "int", i |-> n, s |-> <<>>, d |-> DecZero]

PyText(s) == [t |-> "str", i |-> 0, s |-> s, d |-> DecZero]

PyNone == [t |-> "none", i |-> 0, s |-> <<>>, d |-> DecZero]

PyDec(d) == [t |-> "dec", i |-> 0, s |-> <<>>, d |-> d]

\* a float, held by its repr: the shortest numeral that reads back to it
PyFloat(r) == [t |-> "float", i |-> 0, s |-> r, d |-> DecZero]

PyBool(b) == [t |-> "bool", i |-> IF b THEN 1 ELSE 0, s |-> <<>>, d |-> DecZero]

\* str(value), which is also what an f-string renders
PyStr(v) ==
    CASE v.t = "int" -> IntText(v.i)
      [] v.t = "str" -> v.s
      [] v.t = "dec" -> DecText(v.d)
      [] v.t = "float" -> v.s
      [] v.t = "bool" -> IF v.i = 1 THEN <<"T", "r", "u", "e">>
                                    ELSE <<"F", "a", "l", "s", "e">>
      [] OTHER -> <<"N", "o", "n", "e">>

(***************************************************************************)
(* The exception hierarchy (src lines 15-45).  decimal's own exceptions    *)
(* are ArithmeticErrors, outside the hierarchy.                            *)
(***************************************************************************)
Exc(cls, code, message) == [cls |-> cls, code |-> code, message |-> message]

NoExc == Exc("none", "", "")

Raised(e) == e.cls # "none"

\* isinstance(e, BankingException)
IsBankingException(e) ==
    e.cls \in {"BankingException", "InvalidInputError", "InvalidAmountError",
               "InsufficientFundsError"}

\* isinstance(e, InvalidInputError)
IsInvalidInputError(e) == e.cls \in {"InvalidInputError", "InvalidAmountError"}

\* a __str__ that leaves the code out
MessageOnly(e) == e.message

\* BankingException.__str__
ExcStr(e) == IF e.code # "" THEN "[" \o e.code \o "] " \o e.message ELSE e.message

\* the error for an amount that is not positive, under the code of an unparsable one
InvalidAmountMiscoded(amount) ==
    Exc("InvalidAmountError", "E003",
        "Invalid amount: " \o Join(PyStr(amount)) \o ". Amount must be positive.")

InvalidAmountError(amount) ==
    Exc("InvalidAmountError", "E001",
        "Invalid amount: " \o Join(PyStr(amount)) \o ". Amount must be positive.")

\* the error built with its last two arguments exchanged
InsufficientFundsSwapped(account_id, amount, balance) ==
    Exc("InsufficientFundsError", "T001",
        "Insufficient funds in account " \o Join(account_id) \o ". "
        \o "Attempted to withdraw " \o Join(DecText(balance))
        \o ", but balance is " \o Join(DecText(amount)) \o ".")

InsufficientFundsError(account_id, amount, balance) ==
    Exc("InsufficientFundsError", "T001",
        "Insufficient funds in account " \o Join(account_id) \o ". "
        \o "Attempted to withdraw " \o Join(DecText(amount))
        \o ", but balance is " \o Join(DecText(balance)) \o ".")

\* a signal the decimal context traps, as the exception Python raises
DecimalError(sig) == Exc("decimal." \o sig, "", "")

(***************************************************************************)
(* InputValidator.validate_amount: [exc, v], v the Decimal returned when   *)
(* nothing is raised.                                                      *)
(***************************************************************************)
\* a validator that lets zero through: amount_decimal < Decimal('0')
OnlyNegative(x) == Cmp(x, DecZero) < 0

\* amount_decimal <= Decimal('0')
NotPositive(x) == Cmp(x, DecZero) <= 0

validate_amount(amount) ==
    LET badFormat == Exc("InvalidInputError", "E003",
                         "Invalid amount format: '" \o Join(PyStr(amount))
                         \o "'. Must be a valid number.")
        Converted(parsed) ==
            IF ~parsed.ok THEN [exc |-> badFormat, v |-> DecNaN]
            \* amount_decimal <= Decimal('0') raises InvalidOperation on a NaN
            ELSE IF IsNaN(parsed.v) THEN [exc |-> badFormat, v |-> DecNaN]
            ELSE IF NotPositive(parsed.v)
            THEN [exc |-> InvalidAmountError(amount), v |-> DecNaN]
            ELSE [exc |-> NoExc, v |-> parsed.v]
    IN  Converted(DecimalOfText(PyStr(amount)))

(***************************************************************************)
(* InputValidator.validate_account_id.  The pattern is                     *)
(* ^[a-zA-Z0-9]{8,12}$ under re.match, and $ also matches just before a    *)
(* final newline.                                                          *)
(***************************************************************************)
AlnumChars ==
    {"a", "b", "c", "d", "e", "f", "g", "h", "i", "j", "k", "l", "m",
     "n", "o", "p", "q", "r", "s", "t", "u", "v", "w", "x", "y", "z",
     "A", "B", "C", "D", "E", "F", "G", "H", "I", "J", "K", "L", "M",
     "N", "O", "P", "Q", "R", "S", "T", "U", "V", "W", "X", "Y", "Z",
     "0", "1", "2", "3", "4", "5", "6", "7", "8", "9"}

RECURSIVE AlnumPrefixLen(_)
AlnumPrefixLen(s) == IF s # <<>> /\ Head(s) \in AlnumChars
                     THEN 1 + AlnumPrefixLen(Tail(s)) ELSE 0

MinIdLen == 8

MaxIdLen == 12

\* re.match(r'^[a-zA-Z0-9]{8,12}$', text) is not None
MatchesIdPattern(text) ==
    LET n == AlnumPrefixLen(text)
        rest == Drop(text, n)
    IN  n >= MinIdLen /\ n <= MaxIdLen /\ (rest = <<>> \/ rest = <<"\n">>)

validate_account_id(account_id) ==
    IF account_id.t # "str"
    THEN Exc("InvalidInputError", "E004", "Account ID must be a string")
    ELSE IF ~MatchesIdPattern(account_id.s)
    THEN Exc("InvalidInputError", "E005",
             "Invalid account ID format: '" \o Join(account_id.s) \o "'. "
             \o "Must be 8-12 alphanumeric characters.")
    ELSE NoExc

(***************************************************************************)
(* BankAccount                                                             *)
(***************************************************************************)
\* a transaction dict; has_error tells whether the 'error' key is present
\* a record that is appended as it was created, before its status is settled
PendingTransaction(type, amount, status) ==
    [type |-> type, amount |-> amount, status |-> "pending",
     has_error |-> FALSE, error |-> ""]

Transaction(type, amount, status) ==
    [type |-> type, amount |-> amount, status |-> status,
     has_error |-> FALSE, error |-> ""]

FailedTransaction(type, amount, error) ==
    [type |-> type, amount |-> amount, status |-> "failed",
     has_error |-> TRUE, error |-> error]

NoAccount ==
    [account_id |-> <<>>, owner_name |-> <<>>, balance |-> DecNaN,
     transaction_history |-> <<>>]

\* BankAccount.__init__: [exc, self]; no object exists when exc is raised
BankAccount(account_id, owner_name, initial_balance) ==
    LET Balance(val) ==
            IF Raised(val.exc) THEN [exc |-> val.exc, self |-> NoAccount]
            ELSE [exc |-> NoExc,
                  self |-> [account_id |-> account_id.s, owner_name |-> owner_name.s,
                            balance |-> val.v, transaction_history |-> <<>>]]
        Identified(idExc) ==
            IF Raised(idExc) THEN [exc |-> idExc, self |-> NoAccount]
            ELSE IF owner_name.t # "str" \/ Strip(owner_name.s) = <<>>
            THEN [exc |-> Exc("InvalidInputError", "E006", "Owner name cannot be empty"),
                  self |-> NoAccount]
            ELSE Balance(validate_amount(initial_balance))
    IN  Identified(validate_account_id(account_id))

\* a history that keeps the latest record only
Overwritten(self, transaction) ==
    [self EXCEPT !.transaction_history = <<transaction>>]

\* a history that takes the new record at its front
Prepended(self, transaction) ==
    [self EXCEPT !.transaction_history = <<transaction>> \o @]

\* self.transaction_history.append(transaction)
Recorded(self, transaction) ==
    [self EXCEPT !.transaction_history = Append(@, transaction)]

\* an except clause that records every failure, known text or not
AlwaysLogged(self, type, amount, e) ==
    Recorded(self, FailedTransaction(type, amount, ExcStr(e)))

\* an except clause that re-raises and records nothing
Unlogged(self, type, amount, e) == self

\* not any(t.get('error') == str(e) for t in self.transaction_history)
NotInHistory(self, text) ==
    \A k \in 1..Len(self.transaction_history) :
        ~(/\ self.transaction_history[k].has_error
          /\ self.transaction_history[k].error = text)

\* the except clause of deposit and of withdraw: one fallback record, unless
\* some record already carries this very error text
Logged(self, type, amount, e) ==
    IF NotInHistory(self, ExcStr(e))
    THEN Recorded(self, FailedTransaction(type, amount, ExcStr(e)))
    ELSE self

\* what a method call leaves: the object, the exception raised and the value returned
Call(self, exc, ret) == [self |-> self, exc |-> exc, ret |-> ret]

\* self.balance += amount
Credit(balance, amount) == Add(balance, amount)

\* self.balance -= amount
Debit(balance, amount) == Sub(balance, amount)

\* the funds check with its comparison turned round: amount < self.balance
BelowBalance(amount, balance) == Cmp(amount, balance) < 0

\* amount > self.balance
ExceedsBalance(amount, balance) == Cmp(amount, balance) > 0

deposit(self, amount) ==
    LET text == "Logical error in deposit: Balance didn't increase"
        logical == Exc("BankingException", "L001", text)
        \* after self.balance += amount
        Credited(value, moved) ==
            IF Cmp(moved.balance, self.balance) <= 0
            THEN Call(Logged(Recorded(moved, FailedTransaction("deposit", value, text)),
                             "deposit", value, logical),
                      logical, DecNaN)
            ELSE Call(Recorded(moved, Transaction("deposit", value, "completed")),
                      NoExc, moved.balance)
        Summed(value, sum) ==
            IF sum.sig # NoSignal THEN Call(self, DecimalError(sum.sig), DecNaN)
            ELSE Credited(value, [self EXCEPT !.balance = sum.v])
        Validated(val) ==
            IF Raised(val.exc)
            THEN Call(Logged(self, "deposit", amount, val.exc), val.exc, DecNaN)
            ELSE Summed(PyDec(val.v), Credit(self.balance, val.v))
    IN  Validated(validate_amount(amount))

withdraw(self, amount) ==
    LET text == "Logical error in withdrawal: Balance didn't decrease"
        logical == Exc("BankingException", "L002", text)
        \* after self.balance -= amount
        Debited(value, moved) ==
            IF Cmp(moved.balance, self.balance) >= 0
            THEN Call(Logged(Recorded(moved, FailedTransaction("withdrawal", value, text)),
                             "withdrawal", value, logical),
                      logical, DecNaN)
            ELSE Call(Recorded(moved, Transaction("withdrawal", value, "completed")),
                      NoExc, moved.balance)
        Subtracted(value, diff) ==
            IF diff.sig # NoSignal THEN Call(self, DecimalError(diff.sig), DecNaN)
            ELSE Debited(value, [self EXCEPT !.balance = diff.v])
        Refused(value, short) ==
            Call(Logged(Recorded(self, FailedTransaction("withdrawal", value,
                                                         "Insufficient funds")),
                        "withdrawal", value, short),
                 short, DecNaN)
        Validated(val) ==
            IF Raised(val.exc)
            THEN Call(Logged(self, "withdrawal", amount, val.exc), val.exc, DecNaN)
            ELSE IF ExceedsBalance(val.v, self.balance)
            THEN Refused(PyDec(val.v),
                         InsufficientFundsError(self.account_id, val.v, self.balance))
            ELSE Subtracted(PyDec(val.v), Debit(self.balance, val.v))
    IN  Validated(validate_amount(amount))

get_balance(self) == self.balance

get_transaction_history(self) == self.transaction_history


(***************************************************************************)
(* transfer(from_account, to_account, amount).  The two arguments may be   *)
(* the same object, so the function works on the store of accounts and on  *)
(* two indices into it.                                                    *)
(***************************************************************************)
NoResult ==
    [from_balance |-> DecNaN, to_balance |-> DecNaN, amount |-> DecNaN,
     status |-> "none"]

Transferred(accts, exc, result) == [accts |-> accts, exc |-> exc, result |-> result]

\* a rollback that puts a blank object holding the old balance in the source's place
Replaced(accts, from, initial_balance) ==
    [accts EXCEPT ![from] = [NoAccount EXCEPT !.balance = initial_balance]]

\* from_account.balance = initial_balance
RolledBack(accts, from, initial_balance) ==
    [accts EXCEPT ![from].balance = initial_balance]

\* except BankingException: does the handler of transfer catch e?
TransferCatches(e) == IsBankingException(e)

\* a funds check made after the debit: the source has already paid
RefusalAfterDebit(accts, from, amount) ==
    Transferred([accts EXCEPT ![from].balance = Debit(@, amount).v],
                InsufficientFundsError(accts[from].account_id, amount,
                                       accts[from].balance),
                NoResult)

\* the funds check of transfer fails: nothing has been touched yet
Refusal(accts, from, amount) ==
    Transferred(accts,
                InsufficientFundsError(accts[from].account_id, amount,
                                       accts[from].balance),
                NoResult)

\* total_before: initial_balance + to_account.balance - amount
TotalBefore(initial_balance, to_balance, amount) ==
    LET Less(sum) == IF sum.sig # NoSignal THEN sum ELSE Sub(sum.v, amount)
    IN  Less(Add(initial_balance, to_balance))

transfer(accts, from, to, amount) ==
    LET initial_balance == accts[from].balance
        lost == Exc("BankingException", "L003",
                    "Logical error: Money not conserved during transfer")
        \* the conservation check and the result
        Checked(credited, value, total_before, total_after) ==
            IF total_before.sig # NoSignal
            THEN Transferred(credited, DecimalError(total_before.sig), NoResult)
            ELSE IF total_after.sig # NoSignal
            THEN Transferred(credited, DecimalError(total_after.sig), NoResult)
            ELSE IF Cmp(total_before.v, total_after.v) # 0
            THEN Transferred(RolledBack(credited, from, initial_balance), lost, NoResult)
            ELSE Transferred(credited, NoExc,
                             [from_balance |-> credited[from].balance,
                              to_balance |-> credited[to].balance,
                              amount |-> value, status |-> "completed"])
        \* after to_account.deposit(amount)
        Deposited(credited, value, exc) ==
            IF Raised(exc)
            THEN IF TransferCatches(exc)
                 THEN Transferred(RolledBack(credited, from, initial_balance), exc, NoResult)
                 ELSE Transferred(credited, exc, NoResult)
            ELSE Checked(credited, value,
                         TotalBefore(initial_balance, credited[to].balance, value),
                         Add(credited[from].balance, credited[to].balance))
        Credited(debited, value, dep) ==
            Deposited([debited EXCEPT ![to] = dep.self], value, dep.exc)
        \* after from_account.balance -= amount
        Debited(value, debited) == Credited(debited, value, deposit(debited[to], PyDec(value)))
        Subtracted(value, diff) ==
            IF diff.sig # NoSignal THEN Transferred(accts, DecimalError(diff.sig), NoResult)
            ELSE Debited(value, [accts EXCEPT ![from].balance = diff.v])
        Validated(val) ==
            IF Raised(val.exc) THEN Transferred(accts, val.exc, NoResult)
            ELSE IF ExceedsBalance(val.v, accts[from].balance)
            THEN Refusal(accts, from, val.v)
            ELSE Subtracted(val.v, Debit(initial_balance, val.v))
    IN  Validated(validate_amount(amount))

(***************************************************************************)
(* The program: two accounts, built by the constructor, and any sequence   *)
(* of calls on them.                                                       *)
(***************************************************************************)
Text(str) ==
    CASE str = "ACCT123456" -> <<"A", "C", "C", "T", "1", "2", "3", "4", "5", "6">>
      [] str = "ACCT654321" -> <<"A", "C", "C", "T", "6", "5", "4", "3", "2", "1">>
      [] str = "John Doe" -> <<"J", "o", "h", "n", " ", "D", "o", "e">>
      [] str = "Jane Doe" -> <<"J", "a", "n", "e", " ", "D", "o", "e">>
      [] str = "abc" -> <<"a", "b", "c">>
      [] str = "Infinity" -> <<"I", "n", "f", "i", "n", "i", "t", "y">>
      [] str = "9E999999" -> <<"9", "E", "9", "9", "9", "9", "9", "9">>

\* the number of calls of a run
MaxCalls == 2

Accounts == {1, 2}

\* the amounts a caller passes: valid ones (small, at the top of the exponent
\* range, infinite), zero, and text that is no number
Amounts ==
    {PyInt(1), PyInt(0), PyText(Text("abc")), PyText(Text("Infinity")),
     PyText(Text("9E999999"))}

\* the balances the accounts are opened with
OpeningBalances == {PyInt(1), PyText(Text("9E999999"))}

VARIABLES accounts, opening, last, calls

vars == <<accounts, opening, last, calls>>

\* the call just made: its arguments, the store before it, and its outcome
CallRecord(op, a, b, amount, before, exc, ret, result) ==
    [op |-> op, a |-> a, b |-> b, amount |-> amount, before |-> before,
     exc |-> exc, ret |-> ret, result |-> result]

Opened(k, balance) ==
    BankAccount(PyText(Text(IF k = 1 THEN "ACCT123456" ELSE "ACCT654321")),
                PyText(Text(IF k = 1 THEN "John Doe" ELSE "Jane Doe")),
                balance).self

Init ==
    /\ opening \in [Accounts -> OpeningBalances]
    /\ accounts = [k \in Accounts |-> Opened(k, opening[k])]
    /\ last = CallRecord("none", 1, 1, PyNone, accounts, NoExc, DecNaN, NoResult)
    /\ calls = 0

Deposit ==
    \E a \in Accounts, amount \in Amounts :
        LET Done(r) ==
                /\ accounts' = [accounts EXCEPT ![a] = r.self]
                /\ last' = CallRecord("deposit", a, a, amount, accounts, r.exc, r.ret,
                                      NoResult)
        IN  /\ calls < MaxCalls
            /\ Done(deposit(accounts[a], amount))
            /\ calls' = calls + 1
            /\ UNCHANGED opening

Withdraw ==
    \E a \in Accounts, amount \in Amounts :
        LET Done(r) ==
                /\ accounts' = [accounts EXCEPT ![a] = r.self]
                /\ last' = CallRecord("withdraw", a, a, amount, accounts, r.exc, r.ret,
                                      NoResult)
        IN  /\ calls < MaxCalls
            /\ Done(withdraw(accounts[a], amount))
            /\ calls' = calls + 1
            /\ UNCHANGED opening

Transfer ==
    \E a \in Accounts, b \in Accounts, amount \in Amounts :
        LET Done(r) ==
                /\ accounts' = r.accts
                /\ last' = CallRecord("transfer", a, b, amount, accounts, r.exc, DecNaN,
                                      r.result)
        IN  /\ calls < MaxCalls
            /\ Done(transfer(accounts, a, b, amount))
            /\ calls' = calls + 1
            /\ UNCHANGED opening

GetBalance ==
    \E a \in Accounts :
        /\ calls < MaxCalls
        /\ last' = CallRecord("get_balance", a, a, PyNone, accounts, NoExc,
                              get_balance(accounts[a]), NoResult)
        /\ calls' = calls + 1
        /\ UNCHANGED <<accounts, opening>>

GetTransactionHistory ==
    \E a \in Accounts :
        /\ calls < MaxCalls
        /\ last' = CallRecord("get_transaction_history", a, a, PyNone, accounts, NoExc,
                              DecNaN, NoResult)
        /\ calls' = calls + 1
        /\ UNCHANGED <<accounts, opening>>

Next == Deposit \/ Withdraw \/ Transfer \/ GetBalance \/ GetTransactionHistory

Spec == Init /\ [][Next]_vars

(***************************************************************************)
(* validate_amount on its own: one call on each input of a bounded set.    *)
(* A numeral is kept as its parts (sign, integer digits, point, fraction   *)
(* digits, exponent, padding) and handed to the validator as the text a    *)
(* caller would write.                                                     *)
(***************************************************************************)
\* the Python ints passed are -MaxInt .. MaxInt
MaxInt == 2

Signs == {<<>>, <<"+">>, <<"-">>}

IntParts == {<<>>, <<0>>, <<7>>, <<0, 5>>, <<1, 0>>}

FracParts == {<<>>, <<0>>, <<5>>, <<0, 1>>}

\* an exponent as written and as meant
ExpParts ==
    {[text |-> <<>>, value |-> 0], [text |-> <<"e", "2">>, value |-> 2],
     [text |-> <<"E", "-", "3">>, value |-> -3],
     [text |-> <<"e", "+", "0", "4">>, value |-> 4]}

Numerals ==
    {n \in [sign : Signs, int : IntParts, point : BOOLEAN, frac : FracParts,
            exp : ExpParts, pad : BOOLEAN] : n.point \/ n.frac = <<>>}

Render(n) ==
    (IF n.pad THEN <<" ">> ELSE <<>>) \o n.sign \o DigitsText(n.int)
    \o (IF n.point THEN <<".">> ELSE <<>>) \o DigitsText(n.frac) \o n.exp.text
    \o (IF n.pad THEN <<" ">> ELSE <<>>)

\* text that is no numeral, and None
NotNumbers ==
    {PyNone, PyText(<<>>), PyText(Text("abc")), PyText(<<"1", ".", "2", ".", "3">>),
     PyText(<<"-", "-", "1">>), PyText(<<"1", "e">>), PyText(<<"1", " ", "2">>),
     PyText(<<"$", "5">>), PyText(<<"N", "a", "N">>), PyText(<<"1", ",", "5">>)}

\* further arguments: floats, bools, Decimals, and text with the whitespace
\* and the digits Unicode has; with each, what the validator does (it returns
\* a value, or raises under a code) and the argument as an f-string shows it
FurtherArguments ==
    {
     [amount |-> PyFloat(<<"0", ".", "0", "1">>),
      does |-> "returns", value |-> Dec(FALSE, <<1>>, -2), shown |-> "0.01"],
     [amount |-> PyFloat(<<"6", "0", "0", ".", "0">>),
      does |-> "returns", value |-> Dec(FALSE, <<6, 0, 0, 0>>, -1), shown |-> "600.0"],
     [amount |-> PyFloat(<<"1", "e", "-", "0", "5">>),
      does |-> "returns", value |-> Dec(FALSE, <<1>>, -5), shown |-> "1e-05"],
     [amount |-> PyFloat(<<"0", ".", "0">>),
      does |-> "E001", value |-> DecNaN, shown |-> "0.0"],
     [amount |-> PyFloat(<<"-", "1", ".", "5">>),
      does |-> "E001", value |-> DecNaN, shown |-> "-1.5"],
     [amount |-> PyFloat(<<"i", "n", "f">>),
      does |-> "returns", value |-> DecInf(FALSE), shown |-> "inf"],
     [amount |-> PyFloat(<<"n", "a", "n">>),
      does |-> "E003", value |-> DecNaN, shown |-> "nan"],
     [amount |-> PyBool(TRUE),
      does |-> "E003", value |-> DecNaN, shown |-> "True"],
     [amount |-> PyBool(FALSE),
      does |-> "E003", value |-> DecNaN, shown |-> "False"],
     [amount |-> PyText(<<"\f", "5", "\f">>),
      does |-> "returns", value |-> Dec(FALSE, <<5>>, 0), shown |-> "\f5\f"],
     \* a no-break space before and a next-line character (U+0085) after
     [amount |-> PyText(<<" ", "0", ".", "5", "">>),
      does |-> "returns", value |-> Dec(FALSE, <<5>>, -1), shown |-> " 0.5"],
     [amount |-> PyText(<<"U+0663">>),
      does |-> "returns", value |-> Dec(FALSE, <<3>>, 0), shown |-> "\\U+0663;"],
     [amount |-> PyText(<<"U+FF11", "U+FF12">>),
      does |-> "returns", value |-> Dec(FALSE, <<1, 2>>, 0), shown |-> "\\U+FF11;\\U+FF12;"],
     [amount |-> PyText(<<"-", "U+0967">>),
      does |-> "E001", value |-> DecNaN, shown |-> "-\\U+0967;"],
     [amount |-> PyText(<<"²">>),
      does |-> "E003", value |-> DecNaN, shown |-> "²"],
     [amount |-> PyText(<<"5", "U+2003", "5">>),
      does |-> "E003", value |-> DecNaN, shown |-> "5\\U+2003;5"],
     [amount |-> PyText(<<"1", "e", "1", "0", "0", "0", "0", "0", "0", "0", "0", "0", "0",
                         "0", "0", "0", "0", "0", "0", "0", "0">>),
      does |-> "E003", value |-> DecNaN, shown |-> "1e1000000000000000000"],
     [amount |-> PyText(<<"s", "N", "a", "N", "1", "2">>),
      does |-> "E003", value |-> DecNaN, shown |-> "sNaN12"],
     [amount |-> PyDec(DecNaNOf(FALSE, TRUE, <<>>)),
      does |-> "E003", value |-> DecNaN, shown |-> "sNaN"],
     [amount |-> PyDec(DecNaNOf(FALSE, FALSE, <<1, 2, 3>>)),
      does |-> "E003", value |-> DecNaN, shown |-> "NaN123"],
     [amount |-> PyDec(DecNaNOf(TRUE, FALSE, <<>>)),
      does |-> "E003", value |-> DecNaN, shown |-> "-NaN"],
     [amount |-> PyDec(Dec(FALSE, <<1>>, -1000030)),
      does |-> "returns", value |-> Dec(FALSE, <<1>>, -1000030), shown |-> "1E-1000030"],
     [amount |-> PyDec(Dec(FALSE, <<0>>, -1000030)),
      does |-> "E001", value |-> DecNaN, shown |-> "0E-1000030"]}

ValidateInputs ==
    {PyInt(i) : i \in -MaxInt..MaxInt} \cup {PyText(Render(n)) : n \in Numerals}
    \cup {PyText(Text("Infinity")), PyText(<<"-">> \o Text("Infinity"))}
    \cup NotNumbers \cup {w.amount : w \in FurtherArguments}

InitValidate ==
    /\ opening = [k \in Accounts |-> PyInt(1)]
    /\ accounts = [k \in Accounts |-> Opened(k, opening[k])]
    /\ \E amount \in ValidateInputs :
           last = CallRecord("input", 1, 1, amount, accounts, NoExc, DecNaN, NoResult)
    /\ calls = 0

ValidateAmount ==
    LET Done(r) == last' = [last EXCEPT !.op = "validate_amount", !.exc = r.exc,
                                       !.ret = r.v]
    IN  /\ last.op = "input"
        /\ Done(validate_amount(last.amount))
        /\ calls' = calls + 1
        /\ UNCHANGED <<accounts, opening>>

NextValidate == ValidateAmount

SpecValidate == InitValidate /\ [][NextValidate]_vars


(***************************************************************************)
(* Construction at run time: besides the calls on the two accounts, the    *)
(* program may build further accounts; one that is built joins the store.  *)
(***************************************************************************)
\* the initial balance left out of the call
Omitted == [t |-> "omitted", i |-> 0, s |-> <<>>, d |-> DecZero]

\* def __init__(self, account_id, owner_name, initial_balance=0)
WithDefault(initial_balance) ==
    IF initial_balance = Omitted THEN PyInt(0) ELSE initial_balance

GoodIds == {PyText(<<"A", "C", "C", "T", "0", "0", "0", "0", "0", "3">>)}

\* too short; no string; nine letters and digits and a newline
BadIds ==
    {PyText(<<"A", "C">>), PyInt(12345678),
     PyText(<<"A", "C", "C", "T", "0", "0", "0", "0", "4", "\n">>)}

GoodOwners == {PyText(Text("John Doe"))}

\* blank; no string
BadOwners == {PyText(<<" ", " ">>), PyNone}

GoodBalances == {PyInt(1)}

ZeroBalances == {PyInt(0), Omitted}

BadBalances == ZeroBalances \cup {PyText(Text("abc"))}

Construction(account_id, owner_name, initial_balance, before, exc) ==
    [op |-> "BankAccount", account_id |-> account_id, owner_name |-> owner_name,
     initial_balance |-> initial_balance, before |-> before, exc |-> exc]

Construct ==
    \E account_id \in GoodIds \cup BadIds, owner_name \in GoodOwners \cup BadOwners,
       initial_balance \in GoodBalances \cup BadBalances :
        LET Done(r) ==
                /\ accounts' = IF Raised(r.exc) THEN accounts ELSE Append(accounts, r.self)
                /\ last' = Construction(account_id, owner_name, initial_balance, accounts,
                                        r.exc)
        IN  /\ calls < MaxCalls
            /\ Done(BankAccount(account_id, owner_name, WithDefault(initial_balance)))
            /\ calls' = calls + 1
            /\ UNCHANGED opening

NextBank == Next \/ Construct

SpecBank == Init /\ [][NextBank]_vars

(***************************************************************************)
(* validate_account_id on its own: one call on each input of a bounded     *)
(* set.  A string id is kept as its parts: how many letters and digits it  *)
(* has, and what else, if anything, is in it.                              *)
(***************************************************************************)
\* the ids passed have 0 .. MaxIdChars letters and digits
MaxIdChars == 14

IdPattern == <<"A", "c", "9", "T", "z", "0", "B", "x", "5", "q", "R", "7">>

\* n letters and digits
IdBody(n) == [k \in 1..n |-> IdPattern[((k - 1) % Len(IdPattern)) + 1]]

\* what, besides letters and digits, an id holds
IdFlaws ==
    {"none", "newline after", "newline before", "space after", "dash inside",
     "underscore after", "accent first"}

IdShapes == [chars : 0..MaxIdChars, flaw : IdFlaws]

IdText(shape) ==
    CASE shape.flaw = "none" -> IdBody(shape.chars)
      [] shape.flaw = "newline after" -> IdBody(shape.chars) \o <<"\n">>
      [] shape.flaw = "newline before" -> <<"\n">> \o IdBody(shape.chars)
      [] shape.flaw = "space after" -> IdBody(shape.chars) \o <<" ">>
      [] shape.flaw = "dash inside" ->
             Take(IdBody(shape.chars), shape.chars \div 2) \o <<"-">>
             \o Drop(IdBody(shape.chars), shape.chars \div 2)
      [] shape.flaw = "underscore after" -> IdBody(shape.chars) \o <<"_">>
      [] shape.flaw = "accent first" -> <<"é">> \o IdBody(shape.chars)

\* values that are no strings
NotStrings == {PyNone, PyInt(12345678), PyDec(Dec(FALSE, <<1, 2, 3, 4, 5, 6, 7, 8>>, 0))}

AccountIdInputs == {PyText(IdText(shape)) : shape \in IdShapes} \cup NotStrings

\* a call of a validator: its argument and its outcome
Probe(op, arg, exc, ret) == [op |-> op, arg |-> arg, exc |-> exc, ret |-> ret]

InitAccountId ==
    /\ opening = [k \in Accounts |-> PyInt(1)]
    /\ accounts = [k \in Accounts |-> Opened(k, opening[k])]
    /\ \E account_id \in AccountIdInputs : last = Probe("input", account_id, NoExc, PyNone)
    /\ calls = 0

ValidateAccountId ==
    LET Done(exc) == last' = Probe("validate_account_id", last.arg, exc,
                                   IF Raised(exc) THEN PyNone ELSE last.arg)
    IN  /\ last.op = "input"
        /\ Done(validate_account_id(last.arg))
        /\ calls' = calls + 1
        /\ UNCHANGED <<accounts, opening>>

NextAccountId == ValidateAccountId

SpecAccountId == InitAccountId /\ [][NextAccountId]_vars

(***************************************************************************)
(* Exact values, for stating what the balances should be: a non-negative   *)
(* number as the map from decimal positions to its non-zero digits, so     *)
(* that 9E+999999 + 1 is a two-digit map and no sum is ever rounded.       *)
(***************************************************************************)
ExactOf(x) ==
    [inf |-> x.sp = "I",
     m |-> [p \in {x.e + Len(x.d) - k : k \in {j \in 1..Len(x.d) : x.d[j] # 0}} |->
                x.d[Len(x.d) + x.e - p]]]

ExactZero == [inf |-> FALSE, m |-> <<>>]

\* the digit v at position p of the map m
WithDigit(m, p, v) ==
    IF v = 0 THEN [q \in DOMAIN m \ {p} |-> m[q]]
    ELSE [q \in DOMAIN m \cup {p} |-> IF q = p THEN v ELSE m[q]]

RECURSIVE PlusDigit(_, _, _)
\* m + v * 10^p
PlusDigit(m, p, v) ==
    LET Put(t) == IF t < 10 THEN WithDigit(m, p, t)
                  ELSE PlusDigit(WithDigit(m, p, t - 10), p + 1, 1)
    IN  Put(v + (IF p \in DOMAIN m THEN m[p] ELSE 0))

RECURSIVE PlusDigits(_, _, _)
PlusDigits(m, n, ps) ==
    LET At(p) == PlusDigits(PlusDigit(m, p, n[p]), n, ps \ {p})
    IN  IF ps = {} THEN m ELSE At(CHOOSE p \in ps : TRUE)

ExactPlus(a, b) ==
    IF a.inf \/ b.inf THEN [inf |-> TRUE, m |-> <<>>]
    ELSE [inf |-> FALSE, m |-> PlusDigits(a.m, b.m, DOMAIN b.m)]

\* the amount a call was made with, once validated
AmountOf(call) == validate_amount(call.amount).v

ValidAmount(call) == ~Raised(validate_amount(call.amount).exc)

Mutating(call) == call.op \in {"deposit", "withdraw", "transfer"}

SameNumber(x, y) == ~IsNaN(x) /\ ~IsNaN(y) /\ Cmp(x, y) = 0

\* the balance account k had when the last call was made
BalanceBefore(k) == last.before[k].balance

HistoryBefore(k) == last.before[k].transaction_history

Succeeded == ~Raised(last.exc)

\* the unrounded sum of the balances of accounts a and b in the store accts
TotalOf(accts, a, b) == ExactPlus(ExactOf(accts[a].balance), ExactOf(accts[b].balance))

IsPrefix(s, t) == Len(s) <= Len(t) /\ \A k \in 1..Len(s) : s[k] = t[k]

RECURSIVE Completed(_, _)
\* the unrounded sum of the amounts of the completed records of one type
Completed(history, type) ==
    IF history = <<>> THEN ExactZero
    ELSE IF Head(history).type = type /\ Head(history).status = "completed"
    THEN ExactPlus(ExactOf(Head(history).amount.d), Completed(Tail(history), type))
    ELSE Completed(Tail(history), type)

(***************************************************************************)
(* C1.  For every successful transfer, the sum of the two accounts'        *)
(* balances after the call equals the sum of their balances before it.     *)
(* The code computes both balances at 28 significant digits, so a transfer *)
(* can succeed although it rounded one of them.                            *)
(***************************************************************************)
TransferConservesTotal ==
    (last.op = "transfer" /\ Succeeded) =>
        TotalOf(accounts, last.a, last.b) = TotalOf(last.before, last.a, last.b)

(***************************************************************************)
(* C2.  Whenever a deposit, withdraw or transfer call raises an error, the *)
(* balance of every account involved is afterwards equal to its balance    *)
(* before the call.                                                        *)
(***************************************************************************)
FailureKeepsBalances ==
    (Mutating(last) /\ Raised(last.exc)) =>
        \A k \in {last.a, last.b} : SameNumber(accounts[k].balance, BalanceBefore(k))

(***************************************************************************)
(* C3.  In every reachable state every account's balance is a number       *)
(* greater than or equal to zero.                                          *)
(***************************************************************************)
BalanceNeverNegative ==
    \A k \in Accounts :
        ~IsNaN(accounts[k].balance) /\ Cmp(accounts[k].balance, DecZero) >= 0

\* a completed withdrawal took the whole balance
WithdrewEverything ==
    /\ last.op = "withdraw" /\ Succeeded
    /\ ~IsZero(BalanceBefore(last.a))
    /\ IsZero(accounts[last.a].balance)

(***************************************************************************)
(* C4.  After any sequence of calls, each account's balance equals its     *)
(* initial balance plus the amounts of the completed deposit records of    *)
(* its history minus the amounts of its completed withdrawal records.      *)
(* Stated without subtraction: balance + withdrawals = initial + deposits. *)
(***************************************************************************)
BalanceMatchesHistory ==
    \A k \in Accounts :
        ExactPlus(ExactOf(accounts[k].balance),
                  Completed(accounts[k].transaction_history, "withdrawal"))
        = ExactPlus(ExactOf(validate_amount(opening[k]).v),
                    Completed(accounts[k].transaction_history, "deposit"))

(***************************************************************************)
(* C5.  The transaction history is append-only: every deposit, withdraw,   *)
(* transfer, get_balance and get_transaction_history call leaves the       *)
(* history it found as an unchanged prefix of the history afterwards.      *)
(***************************************************************************)
HistoryAppendOnly ==
    \A k \in Accounts : IsPrefix(HistoryBefore(k), accounts[k].transaction_history)

\* a call found records in a history and added to them
HistoryGrewOnRecords ==
    \E k \in Accounts :
        /\ HistoryBefore(k) # <<>>
        /\ Len(accounts[k].transaction_history) > Len(HistoryBefore(k))

(***************************************************************************)
(* C6.  withdraw with a valid amount strictly greater than the balance     *)
(* raises InsufficientFundsError, code T001, whose message names the       *)
(* account id, the requested amount and the balance at the time of the     *)
(* call, and the balance is left as it was.                                *)
(***************************************************************************)
Overdraw ==
    /\ last.op = "withdraw" /\ ValidAmount(last)
    /\ Cmp(AmountOf(last), BalanceBefore(last.a)) > 0

OverdrawRaisesInsufficientFunds ==
    Overdraw =>
        /\ last.exc.cls = "InsufficientFundsError"
        /\ last.exc.code = "T001"
        /\ last.exc.message =
               "Insufficient funds in account " \o Join(last.before[last.a].account_id)
               \o ". Attempted to withdraw " \o Join(DecText(AmountOf(last)))
               \o ", but balance is " \o Join(DecText(BalanceBefore(last.a))) \o "."
        /\ accounts[last.a].balance = BalanceBefore(last.a)

\* a finite amount above a finite balance was refused
OverdrawRefused ==
    Overdraw /\ AmountOf(last).sp = "F" /\ last.exc.code = "T001"

(***************************************************************************)
(* C7.  For two distinct accounts and a valid amount with                  *)
(* 0 < amount <= source balance, transfer succeeds: the source balance is  *)
(* the old one less the amount, the destination balance the old one plus   *)
(* the amount, and the result has status 'completed', the validated amount *)
(* and the two new balances.                                               *)
(***************************************************************************)
CoveredTransfer ==
    /\ last.op = "transfer" /\ last.a # last.b /\ ValidAmount(last)
    /\ Cmp(AmountOf(last), BalanceBefore(last.a)) <= 0

CoveredTransferSucceeds ==
    CoveredTransfer =>
        /\ Succeeded
        /\ ExactPlus(ExactOf(accounts[last.a].balance), ExactOf(AmountOf(last)))
               = ExactOf(BalanceBefore(last.a))
        /\ ExactOf(accounts[last.b].balance)
               = ExactPlus(ExactOf(BalanceBefore(last.b)), ExactOf(AmountOf(last)))
        /\ last.result.status = "completed"
        /\ last.result.amount = AmountOf(last)
        /\ last.result.from_balance = accounts[last.a].balance
        /\ last.result.to_balance = accounts[last.b].balance

(***************************************************************************)
(* C8.  A transfer whose valid amount exceeds the source balance raises    *)
(* InsufficientFundsError and mutates nothing: balances and histories of   *)
(* source and destination are the same before and after the call.          *)
(***************************************************************************)
Overdrawn ==
    /\ last.op = "transfer" /\ ValidAmount(last)
    /\ Cmp(AmountOf(last), BalanceBefore(last.a)) > 0

OverdrawnTransferMutatesNothing ==
    Overdrawn =>
        /\ last.exc.cls = "InsufficientFundsError"
        /\ \A k \in {last.a, last.b} :
               /\ accounts[k].balance = BalanceBefore(k)
               /\ accounts[k].transaction_history = HistoryBefore(k)

\* a transfer between two accounts, the destination with records, was refused
OverdrawnTransferRefused ==
    /\ Overdrawn /\ last.a # last.b
    /\ HistoryBefore(last.b) # <<>>
    /\ last.exc.code = "T001"

(***************************************************************************)
(* C9.  If, during transfer, to_account.deposit(amount) raises, whatever   *)
(* the failure, the source balance is restored to exactly its value before *)
(* the transfer and the same failure reaches the caller of transfer.       *)
(***************************************************************************)
\* the store when transfer calls to_account.deposit
AtDeposit(call) ==
    [call.before EXCEPT ![call.a].balance = Debit(@, AmountOf(call)).v]

\* what that call of deposit does
InnerDeposit(call) == deposit(AtDeposit(call)[call.b], PyDec(AmountOf(call)))

DepositFailed ==
    /\ last.op = "transfer" /\ ValidAmount(last)
    /\ Cmp(AmountOf(last), BalanceBefore(last.a)) <= 0
    /\ Debit(BalanceBefore(last.a), AmountOf(last)).sig = NoSignal
    /\ Raised(InnerDeposit(last).exc)

DepositFailureRollsBack ==
    DepositFailed =>
        /\ accounts[last.a].balance = BalanceBefore(last.a)
        /\ last.exc = InnerDeposit(last).exc

(***************************************************************************)
(* C10.  validate_amount agrees with the reference on every input: a       *)
(* number greater than 0 is returned as that same number, a number less    *)
(* than or equal to 0 raises InvalidAmountError, and what is no number     *)
(* raises an InvalidInputError that is no InvalidAmountError.              *)
(***************************************************************************)
Validated == last.op = "validate_amount"

\* a numeral with a digit is a number; its digits and scale are its value
HasDigits(n) == n.int \o n.frac # <<>>

Positive(n) == n.sign # <<"-">> /\ \E k \in 1..Len(n.int \o n.frac) : (n.int \o n.frac)[k] # 0

ValueOf(n) == Dec(FALSE, StripZeros(n.int \o n.frac), n.exp.value - Len(n.frac))

Returns(x) == ~Raised(last.exc) /\ last.ret = x

RaisesInvalidAmount == last.exc.cls = "InvalidAmountError" /\ last.exc.code = "E001"

RaisesInvalidInput == last.exc.cls = "InvalidInputError"

ValidateAmountReference ==
    Validated =>
        /\ \A n \in Numerals :
               last.amount = PyText(Render(n)) =>
                   IF ~HasDigits(n) THEN RaisesInvalidInput
                   ELSE IF Positive(n) THEN Returns(ValueOf(n))
                   ELSE RaisesInvalidAmount
        /\ \A i \in -MaxInt..MaxInt :
               last.amount = PyInt(i) =>
                   IF i > 0 THEN Returns(Dec(FALSE, NatDigits(i), 0))
                   ELSE RaisesInvalidAmount
        /\ last.amount = PyText(Text("Infinity")) => Returns(DecInf(FALSE))
        /\ last.amount = PyText(<<"-">> \o Text("Infinity")) => RaisesInvalidAmount
        /\ last.amount \in NotNumbers => RaisesInvalidInput
        /\ \A w \in FurtherArguments :
               last.amount = w.amount =>
                   CASE w.does = "returns" -> Returns(w.value)
                     [] w.does = "E001" ->
                          /\ RaisesInvalidAmount
                          /\ last.exc.message = "Invalid amount: " \o w.shown
                                                  \o ". Amount must be positive."
                     [] w.does = "E003" ->
                          /\ RaisesInvalidInput /\ last.exc.code = "E003"
                          /\ last.exc.message = "Invalid amount format: '" \o w.shown
                                                  \o "'. Must be a valid number."

\* a padded numeral with a sign, a fraction and an exponent came back as its value
NumeralValidated ==
    /\ Validated /\ ~Raised(last.exc)
    /\ \E n \in Numerals :
           /\ last.amount = PyText(Render(n))
           /\ n.pad /\ n.sign = <<"+">> /\ n.frac # <<>> /\ n.exp.value # 0
           /\ last.ret = ValueOf(n)

(***************************************************************************)
(* C11.  validate_account_id returns its input unchanged if and only if    *)
(* the input is a string of 8 to 12 characters, all ASCII letters or       *)
(* digits; every other input (no string, too short, too long, any other    *)
(* character anywhere, a trailing newline included) raises                 *)
(* InvalidInputError.                                                      *)
(***************************************************************************)
IdValidated == last.op = "validate_account_id"

\* the id is made of the letters and digits of a well-formed shape, nothing else
WellFormedId ==
    \E shape \in IdShapes :
        /\ last.arg = PyText(IdText(shape))
        /\ shape.flaw = "none"
        /\ shape.chars >= 8 /\ shape.chars <= 12

AccountIdReference ==
    IdValidated =>
        IF WellFormedId THEN ~Raised(last.exc) /\ last.ret = last.arg
        ELSE last.exc.cls = "InvalidInputError"

(***************************************************************************)
(* C12.  Constructing an account with an invalid id, a non-string or blank *)
(* owner name, or an invalid initial balance raises InvalidInputError (or  *)
(* InvalidAmountError, its specialization) and produces no account: the    *)
(* accounts that exist are the ones that existed before.                   *)
(***************************************************************************)
Constructed == last.op = "BankAccount"

BadArgument ==
    \/ last.account_id \in BadIds
    \/ last.owner_name \in BadOwners
    \/ last.initial_balance \in BadBalances

FailedConstructionBuildsNothing ==
    (Constructed /\ BadArgument) =>
        /\ last.exc.cls \in {"InvalidInputError", "InvalidAmountError"}
        /\ accounts = last.before

(***************************************************************************)
(* C13.  An initial balance of zero is rejected: with the other arguments  *)
(* valid, initial balance 0, given or left to the default, raises          *)
(* InvalidAmountError; so every account that exists was created with a     *)
(* balance strictly greater than zero.                                     *)
(***************************************************************************)
ZeroBalanceGiven ==
    /\ Constructed
    /\ last.account_id \in GoodIds /\ last.owner_name \in GoodOwners
    /\ last.initial_balance \in ZeroBalances

\* the accounts built at run time are never operated on: their balance is
\* the one they were created with
CreatedPositive ==
    /\ \A k \in Accounts : Cmp(validate_amount(opening[k]).v, DecZero) > 0
    /\ \A k \in DOMAIN accounts \ Accounts :
           ~IsNaN(accounts[k].balance) /\ Cmp(accounts[k].balance, DecZero) > 0

ZeroBalanceRejected ==
    /\ ZeroBalanceGiven =>
           /\ last.exc.cls = "InvalidAmountError"
           /\ accounts = last.before
    /\ CreatedPositive

\* the default balance was rejected, and an account built earlier is there
DefaultBalanceRejected ==
    /\ ZeroBalanceGiven /\ last.initial_balance = Omitted
    /\ last.exc.code = "E001"
    /\ Len(accounts) > Cardinality(Accounts)

(***************************************************************************)
(* C14.  A successful deposit sets the balance to exactly the previous     *)
(* balance plus the validated amount, a successful withdrawal to exactly   *)
(* the previous balance minus it; the new balance is strictly greater,     *)
(* respectively strictly smaller, than the previous one; the call returns  *)
(* the new balance and get_balance then returns the same value.            *)
(***************************************************************************)
Deposited == last.op = "deposit" /\ Succeeded

Withdrew == last.op = "withdraw" /\ Succeeded

ReturnedNewBalance ==
    /\ last.ret = accounts[last.a].balance
    /\ get_balance(accounts[last.a]) = last.ret

DepositWithdrawExact ==
    /\ Deposited =>
        /\ ExactOf(accounts[last.a].balance)
               = ExactPlus(ExactOf(BalanceBefore(last.a)), ExactOf(AmountOf(last)))
        /\ Cmp(accounts[last.a].balance, BalanceBefore(last.a)) > 0
        /\ ReturnedNewBalance
    /\ Withdrew =>
        /\ ExactPlus(ExactOf(accounts[last.a].balance), ExactOf(AmountOf(last)))
               = ExactOf(BalanceBefore(last.a))
        /\ Cmp(accounts[last.a].balance, BalanceBefore(last.a)) < 0
        /\ ReturnedNewBalance

(***************************************************************************)
(* C15.  Every record in every account's history has status 'completed' or *)
(* 'failed', never 'pending'; every 'failed' record has an error that is a *)
(* non-empty string; every 'completed' record has no error.                *)
(***************************************************************************)
WellFormedRecord(record) ==
    /\ record.status \in {"completed", "failed"}
    /\ record.status = "failed" => (record.has_error /\ record.error # "")
    /\ record.status = "completed" => ~record.has_error

RecordsWellFormed ==
    \A k \in DOMAIN accounts :
        \A n \in 1..Len(accounts[k].transaction_history) :
            WellFormedRecord(accounts[k].transaction_history[n])

\* one history holds a completed record and a failed one
CompletedAndFailedRecorded ==
    \E k \in DOMAIN accounts :
        \E n, m \in 1..Len(accounts[k].transaction_history) :
            /\ accounts[k].transaction_history[n].status = "completed"
            /\ accounts[k].transaction_history[m].status = "failed"

(***************************************************************************)
(* C16.  A deposit or withdraw call whose amount fails validation          *)
(* (unparsable, zero or negative) raises to the caller and appends no      *)
(* record to the account's transaction history.                            *)
(***************************************************************************)
ValidationFailed == last.op \in {"deposit", "withdraw"} /\ ~ValidAmount(last)

ValidationFailureAppendsNothing ==
    ValidationFailed =>
        /\ Raised(last.exc)
        /\ accounts[last.a].transaction_history = HistoryBefore(last.a)

(***************************************************************************)
(* C16, as the code has it.  A deposit or withdraw call whose amount fails *)
(* validation raises an InvalidInputError to the caller and appends        *)
(* exactly one 'failed' record of the call's type, holding the raw amount  *)
(* and the '[CODE] message' text of the error, unless a record of that     *)
(* history already carries that very error text: then nothing is appended. *)
(***************************************************************************)
FallbackRecord ==
    [type |-> IF last.op = "deposit" THEN "deposit" ELSE "withdrawal",
     amount |-> last.amount, status |-> "failed", has_error |-> TRUE,
     error |-> "[" \o last.exc.code \o "] " \o last.exc.message]

AlreadyLogged ==
    \E n \in 1..Len(HistoryBefore(last.a)) :
        /\ HistoryBefore(last.a)[n].has_error
        /\ HistoryBefore(last.a)[n].error = FallbackRecord.error

ValidationFailureLoggedOnce ==
    ValidationFailed =>
        /\ IsInvalidInputError(last.exc)
        /\ accounts[last.a].transaction_history
               = IF AlreadyLogged THEN HistoryBefore(last.a)
                 ELSE Append(HistoryBefore(last.a), FallbackRecord)

\* the same validation failure a second time: the first was recorded, this one is not
ValidationFailedAgain ==
    /\ ValidationFailed /\ AlreadyLogged
    /\ accounts[last.a].transaction_history = HistoryBefore(last.a)

(***************************************************************************)
(* C17.  Every deposit or withdraw call whose amount passes validation     *)
(* appends exactly one record to the account's history, whether the call   *)
(* then completes or fails: the history length grows by exactly 1.         *)
(***************************************************************************)
ValidatedCall == last.op \in {"deposit", "withdraw"} /\ ValidAmount(last)

ValidatedCallAppendsOne ==
    ValidatedCall =>
        Len(accounts[last.a].transaction_history) = Len(HistoryBefore(last.a)) + 1

(***************************************************************************)
(* C18.  A successful transfer between two distinct accounts appends       *)
(* exactly one 'completed' deposit record, with the transferred amount, to *)
(* the destination's history and leaves the source's history unchanged.    *)
(***************************************************************************)
TransferredApart == last.op = "transfer" /\ Succeeded /\ last.a # last.b

TransferDepositRecord ==
    [type |-> "deposit", amount |-> PyDec(AmountOf(last)), status |-> "completed",
     has_error |-> FALSE, error |-> ""]

TransferRecordsOneDeposit ==
    TransferredApart =>
        /\ accounts[last.b].transaction_history
               = Append(HistoryBefore(last.b), TransferDepositRecord)
        /\ accounts[last.a].transaction_history = HistoryBefore(last.a)

\* a transfer succeeded into an account that had a record already
TransferredAfterRecord ==
    /\ TransferredApart
    /\ HistoryBefore(last.b) # <<>>
    /\ Len(accounts[last.b].transaction_history) = Len(HistoryBefore(last.b)) + 1

(***************************************************************************)
(* C19.  Each failure carries the code of its cause: E001 for an amount    *)
(* that parses but is not above zero, E003 for an unparsable amount, E004  *)
(* for a non-string account id, E005 for a string id not of the 8-12       *)
(* alphanumeric form, E006 for a non-string or blank owner name, T001 for  *)
(* a withdrawal or transfer amount exceeding the balance; none of these    *)
(* codes is reported without its cause, and a call with such a cause that  *)
(* fails reports the code of a cause it has.                               *)
(***************************************************************************)
CauseCodes == {"E001", "E003", "E004", "E005", "E006", "T001"}

\* the codes of the causes an amount argument brings
AmountCauses(amount) ==
    (IF amount \in {PyInt(i) : i \in -MaxInt..0} THEN {"E001"} ELSE {})
    \cup (IF amount \in NotNumbers THEN {"E003"} ELSE {})

PlainId(text) ==
    /\ Len(text) >= 8 /\ Len(text) <= 12
    /\ \A k \in 1..Len(text) : text[k] \in AlnumChars

BlankOwner(owner_name) ==
    owner_name.t # "str" \/ \A k \in 1..Len(owner_name.s) : owner_name.s[k] = " "

ConstructionCauses ==
    (IF last.account_id.t # "str" THEN {"E004"} ELSE {})
    \cup (IF last.account_id.t = "str" /\ ~PlainId(last.account_id.s)
          THEN {"E005"} ELSE {})
    \cup (IF BlankOwner(last.owner_name) THEN {"E006"} ELSE {})
    \cup AmountCauses(WithDefault(last.initial_balance))

CallCauses ==
    AmountCauses(last.amount)
    \cup (IF /\ last.op \in {"withdraw", "transfer"} /\ ValidAmount(last)
             /\ Cmp(AmountOf(last), BalanceBefore(last.a)) > 0
          THEN {"T001"} ELSE {})

CarriesCauseCode(causes) ==
    (Raised(last.exc) /\ (causes # {} \/ last.exc.code \in CauseCodes)) =>
        last.exc.code \in causes

FailureCodeNamesCause ==
    /\ Constructed => CarriesCauseCode(ConstructionCauses)
    /\ Mutating(last) => CarriesCauseCode(CallCauses)

\* a construction with three causes of failure reported the first, the malformed id
MalformedIdReported ==
    /\ Constructed /\ last.exc.code = "E005"
    /\ ConstructionCauses = {"E005", "E006", "E003"}

(***************************************************************************)
(* C20.  Every error raised by validation, account construction, deposit,  *)
(* withdraw or transfer is a BankingException, never a low-level error;    *)
(* InvalidAmountError is also an InvalidInputError, and InvalidInputError  *)
(* and InsufficientFundsError are both BankingExceptions.                  *)
(***************************************************************************)
BroaderKindsCatch ==
    /\ last.exc.cls = "InvalidAmountError" => IsInvalidInputError(last.exc)
    /\ last.exc.cls \in {"InvalidInputError", "InsufficientFundsError"} =>
           IsBankingException(last.exc)

EveryErrorIsBankingException ==
    (Mutating(last) /\ Raised(last.exc)) =>
        /\ IsBankingException(last.exc)
        /\ BroaderKindsCatch

(***************************************************************************)
(* C21.  Failures never leave an account unusable: in every state reached  *)
(* by any mix of successful and failed deposit, withdraw and transfer      *)
(* calls, a deposit of a valid amount succeeds, a withdrawal of a valid    *)
(* amount not greater than the balance succeeds, and a transfer between    *)
(* distinct accounts of a valid amount not greater than the source balance *)
(* succeeds.                                                               *)
(***************************************************************************)
Covered == ValidAmount(last) /\ Cmp(AmountOf(last), BalanceBefore(last.a)) <= 0

AccountsStayUsable ==
    /\ (last.op = "deposit" /\ ValidAmount(last)) => Succeeded
    /\ (last.op = "withdraw" /\ Covered) => Succeeded
    /\ (last.op = "transfer" /\ last.a # last.b /\ Covered) => Succeeded

(***************************************************************************)
(* C22.  An account's identifier and owner name never change after         *)
(* construction: deposit, withdraw, transfer, get_balance and              *)
(* get_transaction_history, successful or failing, leave account_id and    *)
(* owner_name as the constructor set them.                                 *)
(***************************************************************************)
IdentityKept ==
    \A k \in Accounts :
        /\ accounts[k].account_id = Opened(k, opening[k]).account_id
        /\ accounts[k].owner_name = Opened(k, opening[k]).owner_name
        /\ accounts[k].account_id = last.before[k].account_id
        /\ accounts[k].owner_name = last.before[k].owner_name

\* a transfer failed and was rolled back, on accounts an earlier call had changed
RolledBackAfterChange ==
    /\ last.op = "transfer" /\ TransferCatches(last.exc)
    /\ last.a # last.b /\ ValidAmount(last)
    /\ ~ExceedsBalance(AmountOf(last), BalanceBefore(last.a))
    /\ \E k \in Accounts : last.before[k] # Opened(k, opening[k])

(***************************************************************************)
(* Two callers on one account with nothing to serialize them.  A call of   *)
(* deposit or withdraw is taken apart at its accesses to the shared        *)
(* object: each reading of self.balance, the assignment to self.balance    *)
(* and each append to self.transaction_history is a step of its own, and   *)
(* the steps of the two calls interleave freely.  The variable last holds  *)
(* the calls in flight: for each caller its position and its local names.  *)
(* In the handler the search of the history is one step and the append of  *)
(* the fallback record another.                                            *)
(***************************************************************************)
Callers == {1, 2}

\* the account both callers hold
Shared == Lowest(Accounts)

Methods == {"deposit", "withdraw"}

ConcurrentAmounts == {PyInt(1), PyInt(2), PyInt(0)}

ConcurrentBalances == {PyInt(2), PyInt(3)}

\* the frame of a call that has not started
NotStarted ==
    [pc |-> "start", method |-> "none", amount |-> PyNone, value |-> DecNaN,
     transaction |-> Transaction("none", PyNone, "pending"),
     previous_balance |-> DecNaN, loaded |-> DecNaN, overwrote |-> FALSE,
     exc |-> NoExc, ret |-> DecNaN]

InFlight(before, callers) == [op |-> "concurrent", before |-> before, callers |-> callers]

\* the 'type' a method writes into its records
TypeOf(method) == IF method = "deposit" THEN "deposit" ELSE "withdrawal"

LogicalError(method) ==
    IF method = "deposit"
    THEN Exc("BankingException", "L001", "Logical error in deposit: Balance didn't increase")
    ELSE Exc("BankingException", "L002",
             "Logical error in withdrawal: Balance didn't decrease")

\* one step of caller c: its frame and the shared object after the step
Stepped(c, frame, self) ==
    /\ last' = [last EXCEPT !.callers[c] = frame]
    /\ accounts' = [accounts EXCEPT ![Shared] = self]
    /\ UNCHANGED opening

InitConcurrent ==
    /\ opening \in [Accounts -> ConcurrentBalances]
    /\ accounts = [k \in Accounts |-> Opened(k, opening[k])]
    /\ last = InFlight(accounts, [c \in Callers |-> NotStarted])
    /\ calls = 0

\* the call is made: amount = InputValidator.validate_amount(amount), and the
\* pending transaction is written down
Enter ==
    \E c \in Callers, method \in Methods, amount \in ConcurrentAmounts :
        LET Entered(val) ==
                IF Raised(val.exc)
                THEN [NotStarted EXCEPT !.pc = "handle", !.method = method,
                                        !.amount = amount, !.exc = val.exc]
                ELSE [NotStarted EXCEPT
                          !.pc = IF method = "deposit" THEN "previous" ELSE "funds",
                          !.method = method, !.amount = PyDec(val.v), !.value = val.v,
                          !.transaction = Transaction(TypeOf(method), PyDec(val.v),
                                                      "pending")]
        IN  /\ last.callers[c].pc = "start"
            /\ Stepped(c, Entered(validate_amount(amount)), accounts[Shared])
            /\ calls' = calls + 1

\* withdraw: if amount > self.balance
CheckFunds ==
    \E c \in Callers :
        LET frame == last.callers[c]
        IN  /\ frame.pc = "funds"
            /\ Stepped(c,
                       IF ExceedsBalance(frame.value, accounts[Shared].balance)
                       THEN [frame EXCEPT
                                 !.pc = "fail",
                                 !.transaction =
                                     FailedTransaction(TypeOf(frame.method),
                                                       PyDec(frame.value),
                                                       "Insufficient funds")]
                       ELSE [frame EXCEPT !.pc = "previous"],
                       accounts[Shared])
            /\ UNCHANGED calls

\* previous_balance = self.balance
ReadPrevious ==
    \E c \in Callers :
        /\ last.callers[c].pc = "previous"
        /\ Stepped(c, [last.callers[c] EXCEPT !.pc = "load",
                                              !.previous_balance = accounts[Shared].balance],
                   accounts[Shared])
        /\ UNCHANGED calls

\* self.balance += amount, first half: the balance is read
LoadBalance ==
    \E c \in Callers :
        /\ last.callers[c].pc = "load"
        /\ Stepped(c, [last.callers[c] EXCEPT !.pc = "store",
                                              !.loaded = accounts[Shared].balance],
                   accounts[Shared])
        /\ UNCHANGED calls

\* self.balance += amount done in one piece: the amount is added to the balance
\* as it is now, whatever was read before
StoreAtomically ==
    \E c \in Callers :
        LET frame == last.callers[c]
            Assigned(r) ==
                Stepped(c, [frame EXCEPT
                                !.pc = "verify",
                                !.overwrote = (accounts[Shared].balance # frame.loaded)],
                        [accounts[Shared] EXCEPT !.balance = r.v])
        IN  /\ frame.pc = "store"
            /\ Assigned(IF frame.method = "deposit"
                        THEN Credit(accounts[Shared].balance, frame.value)
                        ELSE Debit(accounts[Shared].balance, frame.value))
            /\ UNCHANGED calls

\* self.balance += amount, second half: the sum of what was read and the amount
\* is assigned; overwrote notes that the balance was no longer the one read
StoreBalance ==
    \E c \in Callers :
        LET frame == last.callers[c]
            Assigned(r) ==
                IF r.sig # NoSignal
                THEN Stepped(c, [frame EXCEPT !.pc = "done", !.exc = DecimalError(r.sig)],
                             accounts[Shared])
                ELSE Stepped(c, [frame EXCEPT
                                     !.pc = "verify",
                                     !.overwrote = (accounts[Shared].balance # frame.loaded)],
                             [accounts[Shared] EXCEPT !.balance = r.v])
        IN  /\ frame.pc = "store"
            /\ Assigned(IF frame.method = "deposit" THEN Credit(frame.loaded, frame.value)
                        ELSE Debit(frame.loaded, frame.value))
            /\ UNCHANGED calls

\* if self.balance <= previous_balance (deposit), >= (withdraw); the status is set
VerifyBalance ==
    \E c \in Callers :
        LET frame == last.callers[c]
            Wrong(cmp) == IF frame.method = "deposit" THEN cmp <= 0 ELSE cmp >= 0
        IN  /\ frame.pc = "verify"
            /\ Stepped(c,
                       IF Wrong(Cmp(accounts[Shared].balance, frame.previous_balance))
                       THEN [frame EXCEPT
                                 !.pc = "fail",
                                 !.transaction =
                                     FailedTransaction(TypeOf(frame.method),
                                                       PyDec(frame.value),
                                                       LogicalError(frame.method).message)]
                       ELSE [frame EXCEPT
                                 !.pc = "append",
                                 !.transaction = Transaction(TypeOf(frame.method),
                                                             PyDec(frame.value),
                                                             "completed")],
                       accounts[Shared])
            /\ UNCHANGED calls

\* self.transaction_history.append(transaction), status 'completed'
AppendRecord ==
    \E c \in Callers :
        /\ last.callers[c].pc = "append"
        /\ Stepped(c, [last.callers[c] EXCEPT !.pc = "return"],
                   Recorded(accounts[Shared], last.callers[c].transaction))
        /\ UNCHANGED calls

\* return self.balance
ReturnBalance ==
    \E c \in Callers :
        /\ last.callers[c].pc = "return"
        /\ Stepped(c, [last.callers[c] EXCEPT !.pc = "done",
                                              !.ret = accounts[Shared].balance],
                   accounts[Shared])
        /\ UNCHANGED calls

\* self.transaction_history.append(transaction), status 'failed'
AppendFailed ==
    \E c \in Callers :
        /\ last.callers[c].pc = "fail"
        /\ Stepped(c, [last.callers[c] EXCEPT !.pc = "raise"],
                   Recorded(accounts[Shared], last.callers[c].transaction))
        /\ UNCHANGED calls

\* raise InsufficientFundsError(self.account_id, amount, self.balance), or the
\* logical error
RaiseFault ==
    \E c \in Callers :
        LET frame == last.callers[c]
        IN  /\ frame.pc = "raise"
            /\ Stepped(c,
                       [frame EXCEPT
                            !.pc = "handle",
                            !.exc = IF frame.transaction.error = "Insufficient funds"
                                    THEN InsufficientFundsError(
                                             accounts[Shared].account_id, frame.value,
                                             accounts[Shared].balance)
                                    ELSE LogicalError(frame.method)],
                       accounts[Shared])
            /\ UNCHANGED calls

\* except BankingException as e: the history is searched for str(e); when a
\* record carries it the error goes on at once
HandleFault ==
    \E c \in Callers :
        LET frame == last.callers[c]
        IN  /\ frame.pc = "handle"
            /\ Stepped(c,
                       IF NotInHistory(accounts[Shared], ExcStr(frame.exc))
                       THEN [frame EXCEPT !.pc = "fallback"]
                       ELSE [frame EXCEPT !.pc = "done"],
                       accounts[Shared])
            /\ UNCHANGED calls

\* the fallback record is appended, whatever the history holds by now, and the
\* error goes on
AppendFallback ==
    \E c \in Callers :
        LET frame == last.callers[c]
        IN  /\ frame.pc = "fallback"
            /\ Stepped(c, [frame EXCEPT !.pc = "done"],
                       Recorded(accounts[Shared],
                                FailedTransaction(TypeOf(frame.method), frame.amount,
                                                  ExcStr(frame.exc))))
            /\ UNCHANGED calls

NextConcurrent ==
    \/ Enter \/ CheckFunds \/ ReadPrevious \/ LoadBalance \/ StoreBalance
    \/ VerifyBalance \/ AppendRecord \/ ReturnBalance \/ AppendFailed
    \/ RaiseFault \/ HandleFault \/ AppendFallback

SpecConcurrent == InitConcurrent /\ [][NextConcurrent]_vars

(***************************************************************************)
(* C23.  When two callers run deposit or withdraw on the same account      *)
(* concurrently, interleaved at the balance read, the balance write and    *)
(* the history append, an update can be lost: whenever one call's write    *)
(* replaces a balance other than the one it had read and both calls        *)
(* complete, the balance no longer agrees with the history, and it is the  *)
(* balance of no sequential order in which both calls complete.            *)
(***************************************************************************)
BothCompleted ==
    \A c \in Callers : last.callers[c].pc = "done" /\ ~Raised(last.callers[c].exc)

\* the call of caller c made on the object self, alone
Alone(self, c) ==
    IF last.callers[c].method = "deposit" THEN deposit(self, last.callers[c].amount)
    ELSE withdraw(self, last.callers[c].amount)

\* the calls of c and then of d, one after the other
InTurn(c, d) == Alone(Alone(last.before[Shared], c).self, d)

HistoryDisagrees ==
    ExactPlus(ExactOf(accounts[Shared].balance),
              Completed(accounts[Shared].transaction_history, "withdrawal"))
    # ExactPlus(ExactOf(last.before[Shared].balance),
                Completed(accounts[Shared].transaction_history, "deposit"))

NoSequentialBalance ==
    \A c, d \in Callers :
        (/\ c # d
         /\ ~Raised(Alone(last.before[Shared], c).exc)
         /\ ~Raised(InTurn(c, d).exc)) =>
            Cmp(accounts[Shared].balance, InTurn(c, d).self.balance) # 0

StaleWriteLosesUpdate ==
    (/\ last.op = "concurrent"
     /\ BothCompleted
     /\ \E c \in Callers : last.callers[c].overwrote) =>
        HistoryDisagrees /\ NoSequentialBalance

\* two deposits completed, and the balance holds only one of them
LostUpdate ==
    /\ last.op = "concurrent" /\ BothCompleted
    /\ \A c \in Callers : last.callers[c].method = "deposit"
    /\ \E c \in Callers :
           /\ last.callers[c].overwrote
           /\ accounts[Shared].balance
                  = Credit(last.before[Shared].balance, last.callers[c].value).v
    /\ Len(accounts[Shared].transaction_history) = Cardinality(Callers)
    /\ HistoryDisagrees

(***************************************************************************)
(* C24.  The post-condition checks never fire: no deposit call raises the  *)
(* L001 fault, no withdraw call raises the L002 fault, and no transfer     *)
(* between two distinct accounts raises the L003 fault.                    *)
(***************************************************************************)
PostConditionsNeverFire ==
    /\ last.op = "deposit" => last.exc.code # "L001"
    /\ last.op = "withdraw" => last.exc.code # "L002"
    /\ (last.op = "transfer" /\ last.a # last.b) => last.exc.code # "L003"

(***************************************************************************)
(* C25.  Construction validates id, owner name and initial balance in that *)
(* order and reports the first failure only: with an invalid id the error  *)
(* is the id error (E004 or E005) whatever owner and balance are; with a   *)
(* valid id and a blank or non-string owner the error is E006 whatever the *)
(* balance is; an amount error (E001 or E003) is reported only when id and *)
(* owner are both valid.                                                   *)
(***************************************************************************)
ValidIdGiven == last.account_id.t = "str" /\ PlainId(last.account_id.s)

FirstFailureReported ==
    Constructed =>
        /\ ~ValidIdGiven => last.exc.code \in {"E004", "E005"}
        /\ (ValidIdGiven /\ BlankOwner(last.owner_name)) => last.exc.code = "E006"
        /\ last.exc.code \in {"E001", "E003"} =>
               (ValidIdGiven /\ ~BlankOwner(last.owner_name))

(***************************************************************************)
(* C26.  In withdraw and in transfer, amount validation comes before the   *)
(* funds check: a call with an unparsable, zero or negative amount raises  *)
(* InvalidInputError (InvalidAmountError included) whatever the balance    *)
(* is, never InsufficientFundsError, and no balance has changed when it is *)
(* raised.                                                                 *)
(***************************************************************************)
\* the amount is one of the unparsable, zero or negative inputs
InvalidAmountGiven ==
    last.op \in {"withdraw", "transfer"} /\ AmountCauses(last.amount) # {}

ValidationPrecedesFundsCheck ==
    InvalidAmountGiven =>
        /\ IsInvalidInputError(last.exc)
        /\ last.exc.cls # "InsufficientFundsError"
        /\ \A k \in Accounts : accounts[k].balance = BalanceBefore(k)

\* an invalid amount was refused as invalid on an account whose balance is zero
InvalidOnEmptyAccount ==
    /\ InvalidAmountGiven
    /\ IsZero(BalanceBefore(last.a))
    /\ IsInvalidInputError(last.exc)

(***************************************************************************)
(* C27.  The funds check is strict: a withdrawal, or a transfer to a       *)
(* distinct account, of an amount exactly equal to the balance succeeds    *)
(* and leaves that balance at exactly 0; only an amount strictly greater   *)
(* than the balance is refused, so from balance 0 every valid withdrawal   *)
(* or outgoing transfer raises InsufficientFundsError.                     *)
(***************************************************************************)
Outgoing ==
    /\ last.op \in {"withdraw", "transfer"} /\ ValidAmount(last)
    /\ (last.op = "transfer" => last.a # last.b)

WholeBalance == Outgoing /\ Cmp(AmountOf(last), BalanceBefore(last.a)) = 0

FundsCheckStrict ==
    /\ WholeBalance => (Succeeded /\ IsZero(accounts[last.a].balance))
    /\ (Outgoing /\ last.exc.cls = "InsufficientFundsError") =>
           Cmp(AmountOf(last), BalanceBefore(last.a)) > 0
    /\ (Outgoing /\ IsZero(BalanceBefore(last.a))) =>
           last.exc.cls = "InsufficientFundsError"

(***************************************************************************)
(* C28.  A transfer whose source and destination are the same account,     *)
(* with a valid amount not greater than its balance, never succeeds: it    *)
(* raises the L003 fault and leaves the balance equal to its value before  *)
(* the call, yet the 'completed' deposit record appended by the inner      *)
(* deposit stays in the account's history.                                 *)
(***************************************************************************)
SelfTransfer == last.op = "transfer" /\ last.a = last.b /\ Covered

SelfTransferRaisesL003 ==
    SelfTransfer =>
        /\ last.exc.code = "L003"
        /\ accounts[last.a].balance = BalanceBefore(last.a)
        /\ accounts[last.a].transaction_history
               = Append(HistoryBefore(last.a),
                        Transaction("deposit", PyDec(AmountOf(last)), "completed"))

(***************************************************************************)
(* C29.  When deposit or withdraw raises a banking fault, its failure      *)
(* handler appends a fallback 'failed' record, holding the raw input       *)
(* amount and the formatted '[CODE] message' text, if and only if no       *)
(* record already in that account's history carries that text.             *)
(***************************************************************************)
BankingFault == last.op \in {"deposit", "withdraw"} /\ IsBankingException(last.exc)

FaultText == "[" \o last.exc.code \o "] " \o last.exc.message

\* the records the call appended
AppendedByCall ==
    SubSeq(accounts[last.a].transaction_history, Len(HistoryBefore(last.a)) + 1,
           Len(accounts[last.a].transaction_history))

FallbackWith(amount) ==
    [type |-> IF last.op = "deposit" THEN "deposit" ELSE "withdrawal",
     amount |-> amount, status |-> "failed", has_error |-> TRUE, error |-> FaultText]

TextKnown ==
    \E n \in 1..Len(HistoryBefore(last.a)) :
        /\ HistoryBefore(last.a)[n].has_error
        /\ HistoryBefore(last.a)[n].error = FaultText

FallbackHoldsRawAmount ==
    BankingFault =>
        ((\E n \in 1..Len(AppendedByCall) : AppendedByCall[n] = FallbackWith(last.amount))
         <=> ~TextKnown)

(***************************************************************************)
(* C29, as the code has it.  The fallback record holds the amount as the   *)
(* call has it when the fault is raised: the raw input when validation     *)
(* failed, the validated Decimal when the fault came after validation.  It *)
(* is the last record the call appends, and it is appended if and only if  *)
(* no record already in the history carries the formatted text; so a later *)
(* call failing with the same text appends no record carrying it, even     *)
(* when it is the other operation.                                         *)
(***************************************************************************)
AmountAtFault == IF ValidAmount(last) THEN PyDec(AmountOf(last)) ELSE last.amount

FallbackUnlessKnown ==
    BankingFault =>
        /\ (/\ AppendedByCall # <<>>
            /\ AppendedByCall[Len(AppendedByCall)] = FallbackWith(AmountAtFault))
           <=> ~TextKnown
        /\ TextKnown =>
               \A n \in 1..Len(AppendedByCall) : AppendedByCall[n].error # FaultText

\* a withdraw failed with the text a failed deposit had left: nothing was appended
OtherOperationKnown ==
    /\ BankingFault /\ last.op = "withdraw" /\ TextKnown
    /\ \A n \in 1..Len(HistoryBefore(last.a)) : HistoryBefore(last.a)[n].type = "deposit"
    /\ accounts[last.a].transaction_history = HistoryBefore(last.a)

(***************************************************************************)
(* C30.  A withdraw refused for insufficient funds appends two failed      *)
(* records, one with error 'Insufficient funds' and then one with the      *)
(* formatted T001 message, when no record with that formatted message is   *)
(* yet in the history; it appends the 'Insufficient funds' record alone    *)
(* when the account already holds a record with the identical formatted    *)
(* message.                                                                *)
(***************************************************************************)
RefusedText ==
    "[T001] Insufficient funds in account " \o Join(accounts[last.a].account_id)
    \o ". Attempted to withdraw " \o Join(DecText(AmountOf(last)))
    \o ", but balance is " \o Join(DecText(BalanceBefore(last.a))) \o "."

RefusedRecord(error) ==
    [type |-> "withdrawal", amount |-> PyDec(AmountOf(last)), status |-> "failed",
     has_error |-> TRUE, error |-> error]

RefusedBefore ==
    \E n \in 1..Len(HistoryBefore(last.a)) :
        /\ HistoryBefore(last.a)[n].has_error
        /\ HistoryBefore(last.a)[n].error = RefusedText

RefusalRecordedTwiceOrOnce ==
    Overdraw =>
        accounts[last.a].transaction_history
            = HistoryBefore(last.a)
              \o <<RefusedRecord("Insufficient funds")>>
              \o (IF RefusedBefore THEN <<>> ELSE <<RefusedRecord(RefusedText)>>)

\* the same withdrawal was refused a second time: three records, not four
RefusedTwice ==
    /\ Overdraw /\ RefusedBefore
    /\ Len(accounts[last.a].transaction_history) = 3

====
